---------------------------- MODULE Spec2Model ----------------------------
(***************************************************************************)
(* A model of logrefactor: the collector (Collect / parseFile), the        *)
(* catalog edited by the operator, and the transformer (Transform /        *)
(* transformFile / replaceCallExpr / generateStructuredLogCall).           *)
(*                                                                         *)
(* Text is modelled as it is in the program: a string is a sequence of     *)
(* one-byte characters, a file's content is one such sequence with "\n"    *)
(* between its lines.  Positions are token.Position values: 1-based line   *)
(* and 1-based byte column.                                                *)
(***************************************************************************)
EXTENDS Integers, Sequences, FiniteSets, TLC

(***************************************************************************)
(* strings package                                                         *)
(***************************************************************************)
NL == "\n"

\* a + b + c ... : concatenation of a sequence of strings
RECURSIVE Concat(_)
Concat(ss) == IF ss = <<>> THEN <<>> ELSE Head(ss) \o Concat(Tail(ss))

\* s[from:] with a 1-based first index
From(s, i) == SubSeq(s, i, Len(s))

\* strings.HasPrefix applied to s[i:]
HasPrefixAt(s, i, p) ==
    /\ i + Len(p) - 1 <= Len(s)
    /\ SubSeq(s, i, i + Len(p) - 1) = p

\* strings.Index: 1-based index of the first occurrence of sub in s, 0 if none
Index(s, sub) ==
    LET hits == {i \in 1..(Len(s) + 1) : HasPrefixAt(s, i, sub)}
    IN  IF hits = {} THEN 0 ELSE CHOOSE i \in hits : \A j \in hits : i <= j

\* strings.Contains
Contains(s, sub) == Index(s, sub) # 0

\* strings.Split(s, sep) for a one-byte separator: n+1 pieces for n separators
RECURSIVE Split(_, _)
Split(s, sep) ==
    LET i == Index(s, <<sep>>)
    IN  IF i = 0 THEN <<s>>
        ELSE <<SubSeq(s, 1, i - 1)>> \o Split(From(s, i + 1), sep)

\* strings.Join
RECURSIVE Join(_, _)
Join(parts, sep) ==
    IF parts = <<>> THEN <<>>
    ELSE IF Len(parts) = 1 THEN parts[1]
    ELSE parts[1] \o sep \o Join(Tail(parts), sep)

\* strings.SplitN(s, sep, 2)
SplitN2(s, sep) ==
    LET i == Index(s, <<sep>>)
    IN  IF i = 0 THEN <<s>> ELSE <<SubSeq(s, 1, i - 1), From(s, i + 1)>>

IsSpace(c) == c \in {" ", "\n", "\t"}

\* strings.Trim(s, cutset): strip leading and trailing bytes that are in cutset
RECURSIVE TrimLeft(_, _)
TrimLeft(s, cutset) ==
    IF s # <<>> /\ Head(s) \in cutset THEN TrimLeft(Tail(s), cutset) ELSE s

RECURSIVE TrimRight(_, _)
TrimRight(s, cutset) ==
    IF s # <<>> /\ s[Len(s)] \in cutset
    THEN TrimRight(SubSeq(s, 1, Len(s) - 1), cutset) ELSE s

Trim(s, cutset) == TrimRight(TrimLeft(s, cutset), cutset)

\* strings.TrimSpace
TrimSpace(s) == Trim(s, {" ", "\n", "\t"})

LowerAlpha ==
    <<"a", "b", "c", "d", "e", "f", "g", "h", "i", "j", "k", "l", "m",
      "n", "o", "p", "q", "r", "s", "t", "u", "v", "w", "x", "y", "z">>

UpperAlpha ==
    <<"A", "B", "C", "D", "E", "F", "G", "H", "I", "J", "K", "L", "M",
      "N", "O", "P", "Q", "R", "S", "T", "U", "V", "W", "X", "Y", "Z">>

LowerChar(c) ==
    IF \E i \in 1..26 : UpperAlpha[i] = c
    THEN LowerAlpha[CHOOSE i \in 1..26 : UpperAlpha[i] = c] ELSE c

UpperChar(c) ==
    IF \E i \in 1..26 : LowerAlpha[i] = c
    THEN UpperAlpha[CHOOSE i \in 1..26 : LowerAlpha[i] = c] ELSE c

\* strings.ToLower
ToLower(s) == [i \in 1..Len(s) |-> LowerChar(s[i])]

\* strings.Title: upper-case the first letter of every word
Title(s) ==
    [i \in 1..Len(s) |->
        IF i = 1 \/ (i > 1 /\ IsSpace(s[i - 1])) THEN UpperChar(s[i]) ELSE s[i]]

(***************************************************************************)
(* go/parser, go/ast and go/token, as far as the program uses them: the    *)
(* call expressions of a file in ast.Inspect order, each with the byte     *)
(* index of its first character (Pos) and the index one past its last      *)
(* (End).  A call is an operand (identifiers joined by ".") followed by a  *)
(* parenthesised argument list; "x.f(a).g(b)" is two calls that start at   *)
(* the same byte.  String literals are skipped.                            *)
(***************************************************************************)
Letters ==
    {"a", "b", "c", "d", "e", "f", "g", "h", "i", "j", "k", "l", "m", "n", "o",
     "p", "q", "r", "s", "t", "u", "v", "w", "x", "y", "z", "_"} \cup
    {"A", "B", "C", "D", "E", "F", "G", "H", "I", "J", "K", "L", "M", "N", "O",
     "P", "Q", "R", "S", "T", "U", "V", "W", "X", "Y", "Z"}

Digits == {"0", "1", "2", "3", "4", "5", "6", "7", "8", "9"}

IsLetter(c) == c \in Letters

QUOTE == "\""

\* index of the quote that closes the string literal opened at s[i]; 0 if none
StrEnd(s, i) ==
    LET k == Index(From(s, i + 1), <<QUOTE>>)
    IN  IF k = 0 THEN 0 ELSE i + k

\* the file is syntactically well formed: parentheses balance, literals close
RECURSIVE Balanced(_, _, _)
Balanced(s, i, depth) ==
    IF i > Len(s) THEN depth = 0
    ELSE IF s[i] = QUOTE
         THEN StrEnd(s, i) # 0 /\ Balanced(s, StrEnd(s, i) + 1, depth)
    ELSE IF s[i] = "(" THEN Balanced(s, i + 1, depth + 1)
    ELSE IF s[i] = ")" THEN depth > 0 /\ Balanced(s, i + 1, depth - 1)
    ELSE Balanced(s, i + 1, depth)

\* parser.ParseFile returns no error
ParseOK(s) == Balanced(s, 1, 0)

\* index of the ")" matching a "(" that lies just before s[i] (depth 0 at i)
RECURSIVE MatchParen(_, _, _)
MatchParen(s, i, depth) ==
    IF i > Len(s) THEN 0
    ELSE IF s[i] = QUOTE
         THEN IF StrEnd(s, i) = 0 THEN 0 ELSE MatchParen(s, StrEnd(s, i) + 1, depth)
    ELSE IF s[i] = "(" THEN MatchParen(s, i + 1, depth + 1)
    ELSE IF s[i] = ")"
         THEN IF depth = 0 THEN i ELSE MatchParen(s, i + 1, depth - 1)
    ELSE MatchParen(s, i + 1, depth)

\* first index at or after i that is neither a letter, a digit nor "."
RECURSIVE OperandEnd(_, _)
OperandEnd(s, i) ==
    IF i <= Len(s) /\ (IsLetter(s[i]) \/ s[i] \in Digits \/ s[i] = ".")
    THEN OperandEnd(s, i + 1) ELSE i

\* the argument lists of a chain of calls whose first "(" is at s[open]
RECURSIVE Chain(_, _)
Chain(s, open) ==
    LET close == MatchParen(s, open + 1, 0)
        k     == OperandEnd(s, close + 2)
    IN  IF /\ close + 2 <= Len(s)
           /\ s[close + 1] = "."
           /\ IsLetter(s[close + 2])
           /\ k <= Len(s)
           /\ s[k] = "("
        THEN <<[lparen |-> open, rparen |-> close]>> \o Chain(s, k)
        ELSE <<[lparen |-> open, rparen |-> close]>>

\* the CallExpr nodes of s[i..hi] in ast.Inspect (pre-order) order: a call,
\* then the calls of its Fun, then the calls of its Args
RECURSIVE Calls(_, _, _)
RECURSIVE ArgCalls(_, _, _)
ArgCalls(s, links, k) ==
    IF k > Len(links) THEN <<>>
    ELSE Calls(s, links[k].lparen + 1, links[k].rparen - 1)
         \o ArgCalls(s, links, k + 1)

Calls(s, i, hi) ==
    IF i > hi THEN <<>>
    ELSE IF s[i] = QUOTE THEN Calls(s, StrEnd(s, i) + 1, hi)
    ELSE IF IsLetter(s[i])
         THEN LET j == OperandEnd(s, i)
              IN  IF j <= hi /\ s[j] = "("
                  THEN LET links == Chain(s, j)
                           n     == Len(links)
                       IN  [k \in 1..n |->
                              [pos    |-> i,
                               end    |-> links[n + 1 - k].rparen + 1,
                               lparen |-> links[n + 1 - k].lparen]]
                           \o ArgCalls(s, links, 1)
                           \o Calls(s, links[n].rparen + 1, hi)
                  ELSE Calls(s, j, hi)
    ELSE Calls(s, i + 1, hi)

\* the call expressions ast.Inspect hands to the callback, in order
ParseCalls(s) == Calls(s, 1, Len(s))

\* fset.Position: line and column of the byte at index i of content s
Position(s, i) ==
    LET before == {k \in 1..(i - 1) : k <= Len(s) /\ s[k] = NL}
        last   == IF before = {} THEN 0
                  ELSE CHOOSE k \in before : \A m \in before : m <= k
    IN  [Line |-> Cardinality(before) + 1, Column |-> i - last]

\* fmt.Sprintf("%d:%d", line, column), the key of updateMap
PosKey(p) == <<p.Line, p.Column>>

(***************************************************************************)
(* replaceCallExpr.  start and end are the positions the tree gives for    *)
(* the call; content is the current in-memory content.  A slice expression *)
(* whose bound exceeds the length of the line panics.                      *)
(***************************************************************************)
ReplaceWouldPanic(start, end, content) ==
    LET lines == Split(content, NL)
    IN  /\ ~(start.Line > Len(lines) \/ end.Line > Len(lines))
        /\ \/ start.Column - 1 > Len(lines[start.Line])
           \/ end.Column - 1 > Len(lines[end.Line])

\* the guard at the top of replaceCallExpr: return without touching content
ReplaceGuardReturns(start, end, content) ==
    LET lines == Split(content, NL)
    IN  start.Line > Len(lines) \/ end.Line > Len(lines)

\* replaceCallExpr keeping the last line of a call that spans several lines
ReplaceCallExprKeepsLast(start, end, newCode, content) ==
    LET lines == Split(content, NL)
    IN  IF ReplaceGuardReturns(start, end, content) THEN content
        ELSE IF start.Line = end.Line
        THEN LET line   == lines[start.Line]
                 before == SubSeq(line, 1, start.Column - 1)
                 after  == From(line, end.Column)
             IN  Join([lines EXCEPT ![start.Line] = before \o newCode \o after],
                      <<NL>>)
        ELSE LET firstLine == lines[start.Line]
                 lastLine  == lines[end.Line]
                 before    == SubSeq(firstLine, 1, start.Column - 1)
                 after     == From(lastLine, end.Column)
                 newLine   == before \o newCode \o after
             IN  Join(SubSeq(lines, 1, start.Line - 1) \o <<newLine>>
                        \o SubSeq(lines, end.Line, Len(lines)),
                      <<NL>>)

ReplaceCallExpr(start, end, newCode, content) ==
    LET lines == Split(content, NL)
    IN  IF ReplaceGuardReturns(start, end, content) THEN content
        ELSE IF start.Line = end.Line
        THEN LET line   == lines[start.Line]
                 before == SubSeq(line, 1, start.Column - 1)
                 after  == From(line, end.Column)
             IN  Join([lines EXCEPT ![start.Line] = before \o newCode \o after],
                      <<NL>>)
        ELSE LET firstLine == lines[start.Line]
                 lastLine  == lines[end.Line]
                 before    == SubSeq(firstLine, 1, start.Column - 1)
                 after     == From(lastLine, end.Column)
                 newLine   == before \o newCode \o after
             IN  Join(SubSeq(lines, 1, start.Line - 1) \o <<newLine>>
                        \o SubSeq(lines, end.Line + 1, Len(lines)),
                      <<NL>>)

(***************************************************************************)
(* The call generator.  A FieldMapping is [Key, Expression, Type].         *)
(***************************************************************************)
sWarning == <<"w", "a", "r", "n", "i", "n", "g">>
sWarn    == <<"w", "a", "r", "n">>

\* parts joined with ", ", as strings.Join(parts, ", ")
JoinComma(parts) == Join(parts, <<",", " ">>)

\* fields mapped through f, as the loops over fields build their parts
RECURSIVE MapFields(_, _)
MapFields(f(_), fields) ==
    IF fields = <<>> THEN <<>>
    ELSE <<f(Head(fields))>> \o MapFields(f, Tail(fields))

\* the level-name normalisation of generateSlogCall and generateZerologCall
LowerLevel(level) ==
    IF ToLower(level) = sWarning THEN sWarn ELSE ToLower(level)

\* the level-name normalisation of generateZapCall and generateLogrusCall
TitleLevel(level) ==
    IF Title(ToLower(level)) = Title(sWarning)
    THEN Title(sWarn) ELSE Title(ToLower(level))

SlogField(field) ==
    <<"s", "l", "o", "g", ".", "A", "n", "y", "(", "\"">> \o field.Key \o <<"\"", ",", " ">> \o field.Expression \o <<")">>

generateSlogCall(loggerVar, level, message, fields) ==
    JoinComma(<<loggerVar \o <<".">> \o LowerLevel(level) \o <<"(", "\"">> \o message \o <<"\"">>>>
              \o MapFields(SlogField, fields)) \o <<")">>

getZapFieldFunc(typ) ==
    CASE typ = <<"s", "t", "r", "i", "n", "g">> -> <<"S", "t", "r", "i", "n", "g">>
      [] typ = <<"i", "n", "t">>    -> <<"I", "n", "t">>
      [] typ = <<"b", "o", "o", "l">>   -> <<"B", "o", "o", "l">>
      [] typ = <<"e", "r", "r", "o", "r">>  -> <<"E", "r", "r", "o", "r">>
      [] OTHER            -> <<"A", "n", "y">>

ZapField(field) ==
    <<"z", "a", "p", ".">> \o getZapFieldFunc(field.Type) \o <<"(", "\"">> \o field.Key \o <<"\"", ",", " ">>
      \o field.Expression \o <<")">>

generateZapCall(loggerVar, level, message, fields) ==
    JoinComma(<<loggerVar \o <<".">> \o TitleLevel(level) \o <<"(", "\"">> \o message \o <<"\"">>>>
              \o MapFields(ZapField, fields)) \o <<")">>

getZerologFieldFunc(typ) ==
    CASE typ = <<"s", "t", "r", "i", "n", "g">> -> <<"S", "t", "r">>
      [] typ = <<"i", "n", "t">>    -> <<"I", "n", "t">>
      [] typ = <<"b", "o", "o", "l">>   -> <<"B", "o", "o", "l">>
      [] typ = <<"e", "r", "r", "o", "r">>  -> <<"E", "r", "r">>
      [] OTHER            -> <<"I", "n", "t", "e", "r", "f", "a", "c", "e">>

ZerologField(field) ==
    getZerologFieldFunc(field.Type) \o <<"(", "\"">> \o field.Key \o <<"\"", ",", " ">>
      \o field.Expression \o <<")">>

generateZerologCall(loggerVar, level, message, fields) ==
    Join(<<loggerVar \o <<".">> \o LowerLevel(level) \o <<"(", ")">>>>
         \o MapFields(ZerologField, fields)
         \o <<<<"M", "s", "g", "(", "\"">> \o message \o <<"\"", ")">>>>, <<".">>)

LogrusPair(field) == <<"\"">> \o field.Key \o <<"\"", ":", " ">> \o field.Expression

generateLogrusCall(loggerVar, level, message, fields) ==
    IF Len(fields) = 0
    THEN loggerVar \o <<".">> \o TitleLevel(level) \o <<"(", "\"">> \o message \o <<"\"", ")">>
    ELSE loggerVar \o <<".", "W", "i", "t", "h", "F", "i", "e", "l", "d", "s", "(">> \o loggerVar \o <<".", "F", "i", "e", "l", "d", "s", "{">>
           \o JoinComma(MapFields(LogrusPair, fields)) \o <<"}", ")", ".">>
           \o TitleLevel(level) \o <<"(", "\"">> \o message \o <<"\"", ")">>

(***************************************************************************)
(* text/template, as generateCustomCall uses it.  The template text is     *)
(* cut into literal text and {{...}} actions.  The actions of the variable *)
(* contract are {{.Name}}, {{range .Name}} and {{end}}; any other action   *)
(* is a parse error here.  The data is a map, so a missing top-level key   *)
(* evaluates to no value and prints as "<no value>"; inside a range the    *)
(* dot is a FieldMapping struct, where a missing field is an execution     *)
(* error.                                                                  *)
(***************************************************************************)
sOpen    == <<"{", "{">>
sClose   == <<"}", "}">>
sNoValue == <<"<", "n", "o", " ", "v", "a", "l", "u", "e", ">">>
sEnd     == <<"e", "n", "d">>
sRange   == <<"r", "a", "n", "g", "e", " ">>

\* the template text as a sequence of [k |-> "text" | "action" | "bad", v]
RECURSIVE Lex(_)
Lex(t) ==
    LET i == Index(t, sOpen)
    IN  IF i = 0 THEN (IF t = <<>> THEN <<>> ELSE <<[k |-> "text", v |-> t]>>)
        ELSE LET rest == From(t, i + 2)
                 j    == Index(rest, sClose)
                 pre  == IF i = 1 THEN <<>>
                         ELSE <<[k |-> "text", v |-> SubSeq(t, 1, i - 1)]>>
             IN  IF j = 0 THEN pre \o <<[k |-> "bad", v |-> rest]>>
                 ELSE pre
                      \o <<[k |-> "action", v |-> TrimSpace(SubSeq(rest, 1, j - 1))]>>
                      \o Lex(From(rest, j + 2))

IsFieldRef(v) ==
    /\ Len(v) >= 2
    /\ v[1] = "."
    /\ \A i \in 2..Len(v) : IsLetter(v[i])

IsRange(v) == HasPrefixAt(v, 1, sRange) /\ IsFieldRef(TrimSpace(From(v, 7)))

\* template.Parse succeeds: every action is known and range/end nest properly
RECURSIVE TemplateNests(_, _)
TemplateNests(toks, depth) ==
    IF toks = <<>> THEN depth = 0
    ELSE LET t == Head(toks)
         IN  CASE t.k = "text" -> TemplateNests(Tail(toks), depth)
               [] t.k = "bad"  -> FALSE
               [] OTHER ->
                    IF IsFieldRef(t.v) THEN TemplateNests(Tail(toks), depth)
                    ELSE IF IsRange(t.v) THEN TemplateNests(Tail(toks), depth + 1)
                    ELSE IF t.v = sEnd
                         THEN depth > 0 /\ TemplateNests(Tail(toks), depth - 1)
                    ELSE FALSE

TemplateParses(tmplStr) == TemplateNests(Lex(tmplStr), 0)

\* index in toks of the {{end}} closing a range whose body starts at toks[i]
RECURSIVE RangeEnd(_, _, _)
RangeEnd(toks, i, depth) ==
    IF toks[i].k = "action" /\ toks[i].v = sEnd
    THEN IF depth = 0 THEN i ELSE RangeEnd(toks, i + 1, depth - 1)
    ELSE IF toks[i].k = "action" /\ IsRange(toks[i].v)
    THEN RangeEnd(toks, i + 1, depth + 1)
    ELSE RangeEnd(toks, i + 1, depth)

\* fmt's %v of a FieldMapping and of a []FieldMapping
PrintField(f) == <<"{">> \o f.Key \o <<" ">> \o f.Expression \o <<" ">> \o f.Type \o <<"}">>
PrintFieldList(fs) == <<"[">> \o Join(MapFields(PrintField, fs), <<" ">>) \o <<"]">>

\* {{.name}} with the data map as dot
EvalTop(name, data) ==
    CASE name = <<"L", "o", "g", "g", "e", "r">>  -> [err |-> FALSE, out |-> data.Logger]
      [] name = <<"L", "e", "v", "e", "l">>   -> [err |-> FALSE, out |-> data.Level]
      [] name = <<"M", "e", "s", "s", "a", "g", "e">> -> [err |-> FALSE, out |-> data.Message]
      [] name = <<"F", "i", "e", "l", "d", "s">>  -> [err |-> FALSE, out |-> PrintFieldList(data.Fields)]
      [] OTHER              -> [err |-> FALSE, out |-> sNoValue]

\* {{.name}} with a FieldMapping as dot
EvalField(name, field) ==
    CASE name = <<"K", "e", "y">>        -> [err |-> FALSE, out |-> field.Key]
      [] name = <<"E", "x", "p", "r", "e", "s", "s", "i", "o", "n">> -> [err |-> FALSE, out |-> field.Expression]
      [] name = <<"T", "y", "p", "e">>       -> [err |-> FALSE, out |-> field.Type]
      [] OTHER                 -> [err |-> TRUE, out |-> <<>>]

\* tmpl.Execute over toks[i..hi]; dot is the data map (inField = FALSE) or
\* one FieldMapping (inField = TRUE).  Returns [err, out].
RECURSIVE Exec(_, _, _, _, _, _)
RECURSIVE ExecRange(_, _, _, _, _, _)
ExecRange(toks, lo, hi, items, k, data) ==
    IF k > Len(items) THEN [err |-> FALSE, out |-> <<>>]
    ELSE LET one  == Exec(toks, lo, hi, items[k], TRUE, data)
             more == ExecRange(toks, lo, hi, items, k + 1, data)
         IN  IF one.err THEN one
             ELSE IF more.err THEN more
             ELSE [err |-> FALSE, out |-> one.out \o more.out]

Exec(toks, i, hi, dot, inField, data) ==
    IF i > hi THEN [err |-> FALSE, out |-> <<>>]
    ELSE LET t == toks[i]
         IN  IF t.k = "text"
             THEN LET r == Exec(toks, i + 1, hi, dot, inField, data)
                  IN  [err |-> r.err, out |-> t.v \o r.out]
             ELSE IF IsFieldRef(t.v)
             THEN LET v == IF inField THEN EvalField(Tail(t.v), dot)
                           ELSE EvalTop(Tail(t.v), data)
                      r == Exec(toks, i + 1, hi, dot, inField, data)
                  IN  IF v.err THEN v
                      ELSE [err |-> r.err, out |-> v.out \o r.out]
             ELSE \* {{range .X}} ... {{end}}
                  LET e    == RangeEnd(toks, i + 1, 0)
                      name == Tail(TrimSpace(From(t.v, 7)))
                      over == IF ~inField /\ name = <<"F", "i", "e", "l", "d", "s">>
                              THEN [err |-> FALSE, items |-> data.Fields]
                              ELSE IF inField
                              THEN \* range over a string field, or no such field
                                   [err |-> TRUE, items |-> <<>>]
                              ELSE IF name \in {<<"L", "o", "g", "g", "e", "r">>, <<"L", "e", "v", "e", "l">>, <<"M", "e", "s", "s", "a", "g", "e">>}
                              THEN [err |-> TRUE, items |-> <<>>]
                              ELSE \* range over no value: no iterations
                                   [err |-> FALSE, items |-> <<>>]
                      body == ExecRange(toks, i + 1, e - 1, over.items, 1, data)
                      r    == Exec(toks, e + 1, hi, dot, inField, data)
                  IN  IF over.err THEN [err |-> TRUE, out |-> <<>>]
                      ELSE IF body.err THEN body
                      ELSE [err |-> r.err, out |-> body.out \o r.out]

\* generateCustomCall: [err, out]
generateCustomCall(tmplStr, loggerVar, level, message, fields) ==
    IF ~TemplateParses(tmplStr) THEN [err |-> TRUE, out |-> <<>>]
    ELSE LET toks == Lex(tmplStr)
             data == [Logger |-> loggerVar, Level |-> level,
                      Message |-> message, Fields |-> fields]
             r    == Exec(toks, 1, Len(toks), data, FALSE, data)
         IN  IF r.err THEN [err |-> TRUE, out |-> <<>>] ELSE r

(***************************************************************************)
(* encoding/json, as json.Unmarshal(text, &fields) with fields a           *)
(* []FieldMapping: null, or an array of objects whose members are strings. *)
(* Member names match the struct tags key, expression and type without     *)
(* regard to case; other members are ignored.  Anything else is an error.  *)
(***************************************************************************)
RECURSIVE SkipWS(_, _)
SkipWS(s, i) == IF i <= Len(s) /\ IsSpace(s[i]) THEN SkipWS(s, i + 1) ELSE i

\* a JSON string starting at s[i] = QUOTE: [ok, next, val]
RECURSIVE JSONStr(_, _, _)
JSONStr(s, i, acc) ==
    IF i > Len(s) THEN [ok |-> FALSE, next |-> i, val |-> acc]
    ELSE IF s[i] = QUOTE THEN [ok |-> TRUE, next |-> i + 1, val |-> acc]
    ELSE IF s[i] = "\\"
         THEN IF i + 1 <= Len(s) /\ s[i + 1] \in {QUOTE, "\\", "/"}
              THEN JSONStr(s, i + 2, Append(acc, s[i + 1]))
              ELSE [ok |-> FALSE, next |-> i, val |-> acc]
    ELSE JSONStr(s, i + 1, Append(acc, s[i]))

EmptyField == [Key |-> <<>>, Expression |-> <<>>, Type |-> <<>>]

SetMember(f, name, val) ==
    CASE ToLower(name) = <<"k", "e", "y">>        -> [f EXCEPT !.Key = val]
      [] ToLower(name) = <<"e", "x", "p", "r", "e", "s", "s", "i", "o", "n">> -> [f EXCEPT !.Expression = val]
      [] ToLower(name) = <<"t", "y", "p", "e">>       -> [f EXCEPT !.Type = val]
      [] OTHER                          -> f

\* the members of an object, from the first member name on: [ok, next, val]
RECURSIVE JSONMembers(_, _, _)
JSONMembers(s, i, f) ==
    IF i > Len(s) \/ s[i] # QUOTE THEN [ok |-> FALSE, next |-> i, val |-> f]
    ELSE LET name  == JSONStr(s, i + 1, <<>>)
             colon == SkipWS(s, name.next)
             vpos  == SkipWS(s, colon + 1)
             val   == JSONStr(s, vpos + 1, <<>>)
             after == SkipWS(s, val.next)
         IN  IF ~name.ok \/ colon > Len(s) \/ s[colon] # ":"
                \/ vpos > Len(s) \/ s[vpos] # QUOTE \/ ~val.ok \/ after > Len(s)
             THEN [ok |-> FALSE, next |-> i, val |-> f]
             ELSE IF s[after] = "}"
             THEN [ok |-> TRUE, next |-> after + 1,
                   val |-> SetMember(f, name.val, val.val)]
             ELSE IF s[after] = ","
             THEN JSONMembers(s, SkipWS(s, after + 1),
                              SetMember(f, name.val, val.val))
             ELSE [ok |-> FALSE, next |-> i, val |-> f]

\* an object starting at s[i] = "{": [ok, next, val]
JSONObject(s, i) ==
    LET j == SkipWS(s, i + 1)
    IN  IF j <= Len(s) /\ s[j] = "}"
        THEN [ok |-> TRUE, next |-> j + 1, val |-> EmptyField]
        ELSE JSONMembers(s, j, EmptyField)

\* the elements of an array, from the first element on: [ok, next, val]
RECURSIVE JSONElems(_, _, _)
JSONElems(s, i, acc) ==
    IF i > Len(s) \/ s[i] # "{" THEN [ok |-> FALSE, next |-> i, val |-> acc]
    ELSE LET o     == JSONObject(s, i)
             after == SkipWS(s, o.next)
         IN  IF ~o.ok \/ after > Len(s) THEN [ok |-> FALSE, next |-> i, val |-> acc]
             ELSE IF s[after] = "]"
             THEN [ok |-> TRUE, next |-> after + 1, val |-> Append(acc, o.val)]
             ELSE IF s[after] = ","
             THEN JSONElems(s, SkipWS(s, after + 1), Append(acc, o.val))
             ELSE [ok |-> FALSE, next |-> i, val |-> acc]

\* json.Unmarshal([]byte(text), &fields): [err, fields]
JSONUnmarshalFields(text) ==
    LET i == SkipWS(text, 1)
    IN  IF HasPrefixAt(text, i, <<"n", "u", "l", "l">>)
        THEN [err |-> SkipWS(text, i + 4) <= Len(text), fields |-> <<>>]
        ELSE IF i <= Len(text) /\ text[i] = "["
        THEN LET j == SkipWS(text, i + 1)
                 r == IF j <= Len(text) /\ text[j] = "]"
                      THEN [ok |-> TRUE, next |-> j + 1, val |-> <<>>]
                      ELSE JSONElems(text, j, <<>>)
             IN  IF r.ok /\ SkipWS(text, r.next) > Len(text)
                 THEN [err |-> FALSE, fields |-> r.val]
                 ELSE [err |-> TRUE, fields |-> <<>>]
        ELSE [err |-> TRUE, fields |-> <<>>]

(***************************************************************************)
(* parseSimpleFields and autoGenerateFieldsFromArguments                   *)
(***************************************************************************)
sUnknown == <<"u", "n", "k", "n", "o", "w", "n">>

\* one segment of the simple grammar; <<>> for a blank segment, else <<field>>
SimpleField(rawPart) ==
    LET part == TrimSpace(rawPart)
        kv   == IF Contains(part, <<"=">>) THEN SplitN2(part, "=")
                ELSE IF Contains(part, <<":">>) THEN SplitN2(part, ":")
                ELSE <<part, part>>
    IN  IF part = <<>> THEN <<>>
        ELSE <<[Key |-> TrimSpace(kv[1]), Expression |-> TrimSpace(kv[2]),
                Type |-> sUnknown]>>

RECURSIVE FlatMap(_, _)
FlatMap(f(_), parts) ==
    IF parts = <<>> THEN <<>> ELSE f(Head(parts)) \o FlatMap(f, Tail(parts))

parseSimpleFields(fieldsStr) ==
    LET bySemi == Split(fieldsStr, ";")
        parts  == IF Len(bySemi) = 1 THEN Split(fieldsStr, ",") ELSE bySemi
    IN  FlatMap(SimpleField, parts)

\* one "key(type)=expression[verb]" segment; <<>> when it is skipped
AutoField(rawPart) ==
    LET part         == TrimSpace(rawPart)
        openParen    == Index(part, <<"(">>)
        closeParen   == Index(part, <<")">>)
        equals       == Index(part, <<"=">>)
        exprPart     == TrimSpace(From(part, equals + 1))
        openBracket  == Index(exprPart, <<"[">>)
        expr         == IF openBracket # 0
                        THEN TrimSpace(SubSeq(exprPart, 1, openBracket - 1))
                        ELSE exprPart
    IN  IF part = <<>> THEN <<>>
        ELSE IF openParen = 0 THEN <<>>
        ELSE IF closeParen = 0 \/ closeParen <= openParen THEN <<>>
        ELSE IF equals = 0 \/ equals <= closeParen THEN <<>>
        ELSE <<[Key        |-> TrimSpace(SubSeq(part, 1, openParen - 1)),
                Expression |-> expr,
                Type       |-> TrimSpace(SubSeq(part, openParen + 1, closeParen - 1))]>>

autoGenerateFieldsFromArguments(argumentDetails) ==
    FlatMap(AutoField, Split(argumentDetails, ";"))

\* a resolution that adds the fields of ArgumentDetails to an override
ResolveFieldsMerged(update, autoMap) ==
    (IF update.StructuredFields # <<>>
     THEN LET j == JSONUnmarshalFields(update.StructuredFields)
          IN  IF j.err THEN parseSimpleFields(update.StructuredFields)
              ELSE j.fields
     ELSE <<>>)
    \o (IF autoMap /\ update.ArgumentDetails # <<>>
        THEN autoGenerateFieldsFromArguments(update.ArgumentDetails)
        ELSE <<>>)

(***************************************************************************)
(* generateStructuredLogCall                                               *)
(***************************************************************************)
\* the field list of an entry (lines 246-255)
ResolveFields(update, autoMap) ==
    IF update.StructuredFields # <<>>
    THEN LET j == JSONUnmarshalFields(update.StructuredFields)
         IN  IF j.err THEN parseSimpleFields(update.StructuredFields)
             ELSE j.fields
    ELSE IF autoMap /\ update.ArgumentDetails # <<>>
    THEN autoGenerateFieldsFromArguments(update.ArgumentDetails)
    ELSE <<>>

\* the cutset of strings.Trim(message, ...): the double and the single quote.
\* (The code's cutset also holds the back quote of raw string literals, a
\* character no text of this model contains.)
QuoteCutset == {QUOTE, "'"}

\* the message of an entry (lines 258-262)
ResolveMessage(update) ==
    Trim(IF update.NewMessage = <<>> THEN update.MessageTemplate
         ELSE update.NewMessage, QuoteCutset)

KnownStyles ==
    {<<"s", "l", "o", "g">>, <<"z", "a", "p">>,
     <<"z", "e", "r", "o", "l", "o", "g">>, <<"l", "o", "g", "r", "u", "s">>,
     <<"c", "u", "s", "t", "o", "m">>}

\* the switch on config.Style (lines 264-278): [err, out]
GenerateForStyle(config, level, message, fields) ==
    CASE config.Style = <<"s", "l", "o", "g">> ->
           [err |-> FALSE,
            out |-> generateSlogCall(config.LoggerVar, level, message, fields)]
      [] config.Style = <<"z", "a", "p">> ->
           [err |-> FALSE,
            out |-> generateZapCall(config.LoggerVar, level, message, fields)]
      [] config.Style = <<"z", "e", "r", "o", "l", "o", "g">> ->
           [err |-> FALSE,
            out |-> generateZerologCall(config.LoggerVar, level, message, fields)]
      [] config.Style = <<"l", "o", "g", "r", "u", "s">> ->
           [err |-> FALSE,
            out |-> generateLogrusCall(config.LoggerVar, level, message, fields)]
      [] config.Style = <<"c", "u", "s", "t", "o", "m">> ->
           generateCustomCall(config.Template, config.LoggerVar, level, message,
                              fields)
      [] OTHER -> [err |-> TRUE, out |-> <<>>]

\* generateStructuredLogCall taking the method from NewCall when it is filled in
generateWithNewCall(update, config, autoMap) ==
    GenerateForStyle(config,
                     IF update.NewCall # <<>> THEN update.NewCall
                     ELSE update.LogLevel,
                     ResolveMessage(update),
                     ResolveFields(update, autoMap))

\* [err, out]
generateStructuredLogCall(update, config, autoMap) ==
    GenerateForStyle(config, update.LogLevel, ResolveMessage(update),
                     ResolveFields(update, autoMap))

(***************************************************************************)
(* Expressions.  The parser's expression nodes are records:                *)
(*   [kind |-> "BasicLit", tok, Value]    [kind |-> "Ident", Name]         *)
(*   [kind |-> "SelectorExpr", X, Sel]    [kind |-> "CallExpr", Fun]       *)
(*   [kind |-> "IndexExpr", X]            [kind |-> "UnaryExpr", Op, X]    *)
(*   [kind |-> "BinaryExpr", X, Op, Y]    [kind |-> "Other", type]         *)
(* ParseExpr stands for go/parser on the text of one expression.           *)
(***************************************************************************)
IsIdent(s) ==
    /\ s # <<>>
    /\ IsLetter(s[1])
    /\ \A i \in 1..Len(s) : IsLetter(s[i]) \/ s[i] \in Digits

IsInt(s) == s # <<>> /\ \A i \in 1..Len(s) : s[i] \in Digits

IsFloat(s) ==
    /\ Len(s) >= 2
    /\ Cardinality({i \in 1..Len(s) : s[i] = "."}) = 1
    /\ \A i \in 1..Len(s) : s[i] \in Digits \/ s[i] = "."

\* index of a last "." that is followed by an identifier up to the end; 0 if none
LastDot(s) ==
    LET dots == {i \in 2..(Len(s) - 1) : s[i] = "." /\ IsIdent(From(s, i + 1))}
    IN  IF dots = {} THEN 0 ELSE CHOOSE i \in dots : \A j \in dots : j <= i

\* index of the "(" whose matching ")" is the last character of s; 0 if none
CallParen(s) ==
    LET opens == {i \in 2..(Len(s) - 1) :
                     s[i] = "(" /\ MatchParen(s, i + 1, 0) = Len(s)}
    IN  IF s = <<>> \/ s[Len(s)] # ")" \/ opens = {} THEN 0
        ELSE CHOOSE i \in opens : \A j \in opens : i <= j

\* index of the "[" whose matching "]" is the last character of s; 0 if none
IndexBracket(s) ==
    LET opens == {i \in 2..(Len(s) - 1) :
                     /\ s[i] = "["
                     /\ \A j \in (i + 1)..(Len(s) - 1) : s[j] \notin {"[", "]"}}
    IN  IF s = <<>> \/ s[Len(s)] # "]" \/ opens = {} THEN 0
        ELSE CHOOSE i \in opens : TRUE

UnaryOps == {"!", "-", "+", "&", "^"}

RECURSIVE ParseExpr(_)
ParseExpr(text) ==
    LET s == TrimSpace(text)
    IN  IF s = <<>> THEN [kind |-> "Other", type |-> <<"*", "a", "s", "t", ".", "B", "a", "d", "E", "x", "p", "r">>]
        ELSE IF s[1] = QUOTE /\ StrEnd(s, 1) = Len(s)
        THEN [kind |-> "BasicLit", tok |-> "STRING", Value |-> s]
        ELSE IF s[1] = "'" /\ Len(s) >= 3 /\ s[Len(s)] = "'"
        THEN [kind |-> "BasicLit", tok |-> "CHAR", Value |-> s]
        ELSE IF IsInt(s) THEN [kind |-> "BasicLit", tok |-> "INT", Value |-> s]
        ELSE IF IsFloat(s) THEN [kind |-> "BasicLit", tok |-> "FLOAT", Value |-> s]
        ELSE IF IsIdent(s) THEN [kind |-> "Ident", Name |-> s]
        ELSE IF s[1] \in UnaryOps /\ Len(s) >= 2
        THEN [kind |-> "UnaryExpr", Op |-> <<s[1]>>, X |-> ParseExpr(Tail(s))]
        ELSE IF CallParen(s) # 0 /\ ParseOK(s)
        THEN [kind |-> "CallExpr",
              Fun  |-> ParseExpr(SubSeq(s, 1, CallParen(s) - 1))]
        ELSE IF IndexBracket(s) # 0
        THEN [kind |-> "IndexExpr",
              X    |-> ParseExpr(SubSeq(s, 1, IndexBracket(s) - 1))]
        ELSE IF LastDot(s) # 0
        THEN [kind |-> "SelectorExpr",
              X    |-> ParseExpr(SubSeq(s, 1, LastDot(s) - 1)),
              Sel  |-> From(s, LastDot(s) + 1)]
        ELSE [kind |-> "Other", type |-> <<"*", "a", "s", "t", ".", "B", "a", "d", "E", "x", "p", "r">>]

\* formatExpr (collector)
RECURSIVE formatExpr(_)
formatExpr(e) ==
    CASE e.kind = "BasicLit"     -> e.Value
      [] e.kind = "Ident"        -> e.Name
      [] e.kind = "SelectorExpr" -> formatExpr(e.X) \o <<".">> \o e.Sel
      [] e.kind = "CallExpr"     -> formatExpr(e.Fun) \o <<"(", ")">>
      [] e.kind = "IndexExpr"    -> formatExpr(e.X) \o <<"[", ".", ".", ".", "]">>
      [] e.kind = "UnaryExpr"    -> e.Op \o formatExpr(e.X)
      [] e.kind = "BinaryExpr"   ->
           formatExpr(e.X) \o <<" ">> \o e.Op \o <<" ">> \o formatExpr(e.Y)
      [] OTHER                   -> <<"<">> \o e.type \o <<">">>

\* getFunctionName (collector): the callee name of a call whose Fun is fun
getFunctionName(fun) ==
    CASE fun.kind = "SelectorExpr" ->
           IF fun.X.kind = "Ident" THEN fun.X.Name \o <<".">> \o fun.Sel
           ELSE formatExpr(fun)
      [] fun.kind = "Ident" -> fun.Name
      [] OTHER -> <<>>

\* the level words with warning tried before warn
LevelWordsWarningFirst ==
    <<<<"t", "r", "a", "c", "e">>, <<"d", "e", "b", "u", "g">>, <<"i", "n", "f", "o">>, <<"w", "a", "r", "n", "i", "n", "g">>, <<"w", "a", "r", "n">>, <<"e", "r", "r", "o", "r">>,
      <<"f", "a", "t", "a", "l">>, <<"p", "a", "n", "i", "c">>>>

\* extractLogLevel (collector)
LevelWords ==
    <<<<"t", "r", "a", "c", "e">>, <<"d", "e", "b", "u", "g">>, <<"i", "n", "f", "o">>, <<"w", "a", "r", "n">>, <<"w", "a", "r", "n", "i", "n", "g">>, <<"e", "r", "r", "o", "r">>,
      <<"f", "a", "t", "a", "l">>, <<"p", "a", "n", "i", "c">>>>

extractLogLevel(funcName) ==
    LET funcLower == ToLower(funcName)
        hits      == {i \in 1..Len(LevelWords) : Contains(funcLower, LevelWords[i])}
        first     == CHOOSE i \in hits : \A j \in hits : i <= j
    IN  IF hits # {}
        THEN <<UpperChar(LevelWords[first][1])>> \o Tail(LevelWords[first])
        ELSE IF Contains(funcLower, <<"p", "r", "i", "n", "t">>) THEN <<"I", "n", "f", "o">>
        ELSE <<"U", "n", "k", "n", "o", "w", "n">>

(***************************************************************************)
(* The argument analyzer (collector)                                       *)
(***************************************************************************)
\* the top-level comma-separated pieces of an argument list
RECURSIVE SplitArgs(_, _, _, _)
SplitArgs(s, i, start, depth) ==
    IF i > Len(s)
    THEN (IF TrimSpace(From(s, start)) = <<>> THEN <<>> ELSE <<From(s, start)>>)
    ELSE IF s[i] = QUOTE /\ StrEnd(s, i) # 0
         THEN SplitArgs(s, StrEnd(s, i) + 1, start, depth)
    ELSE IF s[i] \in {"(", "[", "{"} THEN SplitArgs(s, i + 1, start, depth + 1)
    ELSE IF s[i] \in {")", "]", "}"} THEN SplitArgs(s, i + 1, start, depth - 1)
    ELSE IF s[i] = "," /\ depth = 0
         THEN <<SubSeq(s, start, i - 1)>> \o SplitArgs(s, i + 1, i + 1, 0)
    ELSE SplitArgs(s, i + 1, start, depth)

\* call.Args of the call node c of content s, as expression nodes
CallArgs(s, c) ==
    LET texts == SplitArgs(SubSeq(s, c.lparen + 1, c.end - 2), 1, 1, 0)
    IN  [k \in 1..Len(texts) |-> ParseExpr(texts[k])]

\* call.Fun of the call node c of content s
CallFun(s, c) == ParseExpr(SubSeq(s, c.pos, c.lparen - 1))

FlagChars == {"-", "+", "#", " ", "0"}
VerbChars ==
    {"v", "T", "t", "b", "c", "d", "o", "q", "x", "X", "U", "e", "E", "f", "F",
     "g", "G", "s", "p"}

RECURSIVE SkipSet(_, _, _)
SkipSet(s, i, set) ==
    IF i <= Len(s) /\ s[i] \in set THEN SkipSet(s, i + 1, set) ELSE i

\* where a match of %[-+# 0]*[\d]*\.?[\d]*[verb] that starts at s[i] ends; 0 if none
VerbEnd(s, i) ==
    LET a == SkipSet(s, i + 1, FlagChars)
        b == SkipSet(s, a, Digits)
        c == IF b <= Len(s) /\ s[b] = "." THEN b + 1 ELSE b
        d == SkipSet(s, c, Digits)
    IN  IF s[i] = "%" /\ d <= Len(s) /\ s[d] \in VerbChars THEN d ELSE 0

\* re.FindAllString(cleanStr, -1)
RECURSIVE FindVerbs(_, _)
FindVerbs(s, i) ==
    IF i > Len(s) THEN <<>>
    ELSE IF VerbEnd(s, i) # 0
         THEN <<SubSeq(s, i, VerbEnd(s, i))>> \o FindVerbs(s, VerbEnd(s, i) + 1)
    ELSE FindVerbs(s, i + 1)

extractFormatVerbs(formatStr) == FindVerbs(Trim(formatStr, QuoteCutset), 1)

\* extractVarName
extractVarName(expr) ==
    LET parts == Split(expr, ".") IN parts[Len(parts)]

HasPrefix(s, p) == HasPrefixAt(s, 1, p)
HasSuffix(s, p) == Len(s) >= Len(p) /\ From(s, Len(s) - Len(p) + 1) = p
TrimPrefix(s, p) == IF HasPrefix(s, p) THEN From(s, Len(p) + 1) ELSE s

IsUpper(c) == \E i \in 1..26 : UpperAlpha[i] = c

\* inferType
inferType(e) ==
    CASE e.kind = "BasicLit" ->
           (CASE e.tok = "INT"    -> <<"i", "n", "t">>
              [] e.tok = "FLOAT"  -> <<"f", "l", "o", "a", "t">>
              [] e.tok = "STRING" -> <<"s", "t", "r", "i", "n", "g">>
              [] e.tok = "CHAR"   -> <<"r", "u", "n", "e">>
              [] OTHER            -> sUnknown)
      [] e.kind = "Ident" ->
           IF e.Name = <<"t", "r", "u", "e">> \/ e.Name = <<"f", "a", "l", "s", "e">> THEN <<"b", "o", "o", "l">>
           ELSE IF e.Name = <<"n", "i", "l">> THEN <<"n", "i", "l">>
           ELSE IF HasPrefix(e.Name, <<"i", "s">>) \/ HasPrefix(e.Name, <<"h", "a", "s">>)
           THEN <<"b", "o", "o", "l">>
           ELSE IF e.Name = <<"e", "r", "r">> \/ HasSuffix(e.Name, <<"E", "r", "r", "o", "r">>) THEN <<"e", "r", "r", "o", "r">>
           ELSE sUnknown
      [] e.kind = "CallExpr" -> <<"f", "u", "n", "c", "_", "r", "e", "s", "u", "l", "t">>
      [] OTHER -> sUnknown

\* toSnakeCase
RECURSIVE SnakeFrom(_, _)
SnakeFrom(s, i) ==
    IF i > Len(s) THEN <<>>
    ELSE (IF i > 1 /\ IsUpper(s[i]) THEN <<"_", s[i]>> ELSE <<s[i]>>)
         \o SnakeFrom(s, i + 1)

toSnakeCase(s) == ToLower(SnakeFrom(s, 1))

\* generateFieldKey
generateFieldKey(varName, formatVerb, inferredType) ==
    LET key == TrimPrefix(TrimPrefix(toSnakeCase(varName), <<"p", "_">>), <<"m", "_">>)
    IN  CASE key \in {<<"e", "r", "r">>, <<"e", "r", "r", "o", "r">>}      -> <<"e", "r", "r", "o", "r">>
          [] key \in {<<"m", "s", "g">>, <<"m", "e", "s", "s", "a", "g", "e">>}    -> <<"m", "e", "s", "s", "a", "g", "e">>
          [] key = <<"i", "d">>                      -> <<"i", "d">>
          [] key = <<"n", "a", "m", "e">>                    -> <<"n", "a", "m", "e">>
          [] key \in {<<"s", "t", "a", "t", "u", "s">>, <<"s", "t", "a", "t", "e">>}   -> <<"s", "t", "a", "t", "u", "s">>
          [] OTHER                             -> key

\* extractLogDetails with the verbs indexed by i where the code has i-1
extractLogDetailsShifted(args) ==
    IF Len(args) = 0 THEN [MessageTemplate |-> <<>>, Arguments |-> <<>>]
    ELSE LET firstArg    == args[1]
             isLit       == firstArg.kind = "BasicLit" /\ firstArg.tok = "STRING"
             formatVerbs == IF isLit THEN extractFormatVerbs(firstArg.Value)
                            ELSE <<>>
         IN  [MessageTemplate |->
                IF isLit THEN firstArg.Value ELSE formatExpr(firstArg),
              Arguments |->
                [k \in 1..(Len(args) - 1) |->
                   LET expr    == formatExpr(args[k + 1])
                       varName == extractVarName(expr)
                       typ     == inferType(args[k + 1])
                       verb    == IF k + 1 <= Len(formatVerbs)
                                  THEN formatVerbs[k + 1] ELSE <<>>
                   IN  [Index        |-> k - 1,
                        Expression   |-> expr,
                        VarName      |-> varName,
                        Type         |-> typ,
                        FormatVerb   |-> verb,
                        SuggestedKey |-> generateFieldKey(varName, verb, typ)]]]

\* extractLogDetails: [MessageTemplate, Arguments]
extractLogDetails(args) ==
    IF Len(args) = 0 THEN [MessageTemplate |-> <<>>, Arguments |-> <<>>]
    ELSE LET firstArg    == args[1]
             isLit       == firstArg.kind = "BasicLit" /\ firstArg.tok = "STRING"
             formatVerbs == IF isLit THEN extractFormatVerbs(firstArg.Value)
                            ELSE <<>>
         IN  [MessageTemplate |->
                IF isLit THEN firstArg.Value ELSE formatExpr(firstArg),
              Arguments |->
                [k \in 1..(Len(args) - 1) |->
                   LET expr    == formatExpr(args[k + 1])
                       varName == extractVarName(expr)
                       typ     == inferType(args[k + 1])
                       verb    == IF k <= Len(formatVerbs) THEN formatVerbs[k]
                                  ELSE <<>>
                   IN  [Index        |-> k - 1,
                        Expression   |-> expr,
                        VarName      |-> varName,
                        Type         |-> typ,
                        FormatVerb   |-> verb,
                        SuggestedKey |-> generateFieldKey(varName, verb, typ)]]]

\* formatArgumentDetails
ArgDetail(arg) ==
    arg.SuggestedKey \o <<"(">> \o arg.Type \o <<")", "=">> \o arg.Expression
      \o (IF arg.FormatVerb # <<>> THEN <<"[">> \o arg.FormatVerb \o <<"]">> ELSE <<>>)

formatArgumentDetails(args) ==
    IF Len(args) = 0 THEN <<>> ELSE Join(MapFields(ArgDetail, args), <<";", " ">>)

(***************************************************************************)
(* The run.  One run of the tool chain: Collect over the source tree, the  *)
(* operator's edit of the catalog, then Transform.                         *)
(***************************************************************************)
VARIABLES
    disk,           \* file path -> content on disk
    disk0,          \* the content of every file before the run (never changes)
    pc,             \* where the run is
    walk,           \* Collect: the files filepath.Walk has yet to visit
    entries,        \* Collect: entries
    entryID,        \* Collect: entryID
    parseWarned,    \* Collect: files reported with "failed to parse"
    csv,            \* the catalog file: its data rows
    edited,         \* whether the operator changed any row
    config,         \* Transform: config
    dryRun,         \* Transform: dryRun
    autoMap,        \* Transform: autoMap
    fileUpdates,    \* Transform: fileUpdates
    todo,           \* Transform: the keys of fileUpdates not yet iterated
    cur,            \* transformFile: filePath
    content,        \* transformFile: content
    tree,           \* transformFile: the call expressions of node, in Inspect order
    idx,            \* transformFile: the next call expression ast.Inspect visits
    modifications,  \* transformFile: modifications
    modified,       \* transformFile: modified
    genWarned,      \* <<file, index in tree>> of the calls skipped with a warning
    retErr,         \* the error Transform returned; NoError for nil
    reads,          \* the files transformFile has read
    written,        \* the files transformFile has written, in order
    processed,      \* the files for which transformFile returned nil
    probe,          \* one call expression taken alone through the analysis
                    \* of Collect and the generation of Transform
    rerun           \* whether Transform was run again on its own output, and
                    \* the files as the first run left them

vars ==
    <<disk, disk0, pc, walk, entries, entryID, parseWarned, csv, edited, config,
      dryRun, autoMap, fileUpdates, todo, cur, content, tree, idx,
      modifications, modified, genWarned, retErr, reads, written, processed,
      probe, rerun>>

\* the state of a run of Collect and Transform over the source tree
runVars ==
    <<disk, disk0, pc, walk, entries, entryID, parseWarned, csv, edited, config,
      dryRun, autoMap, fileUpdates, todo, cur, content, tree, idx,
      modifications, modified, genWarned, retErr, reads, written, processed,
      rerun>>

collectVars == <<walk, entries, entryID, parseWarned>>
fileVars    == <<cur, content, tree, idx, modifications, modified>>
inputVars   == <<config, dryRun, autoMap>>

NoProbe == [stage |-> "none"]
NoRerun == [n |-> 1]
NoError == [kind |-> "nil"]
NoFile  == "-"

\* the source tree, in the lexical order filepath.Walk visits it
FileNames == <<"a.go", "b.go">>
FileSet   == {FileNames[i] : i \in 1..Len(FileNames)}

(***************************************************************************)
(* Bounded inputs: source files.  A file is a few statements, each ended   *)
(* by ";" or a line break.                                                 *)
(***************************************************************************)
MaxStmts == 2
MaxEdits == 2

stOne   == <<"l", ".", "I", "n", "f", "o", "(", "\"", "m", "\"", ",", "a", ")">>
stMulti == <<"l", ".", "I", "n", "f", "o", "(", "\"", "m", "\"", ",", "\n", "a", ")">>
stChain == <<"l", ".", "W", "(", "a", ")", ".", "I", "n", "f", "o", "(", "\"", "m", "\"", ")">>
stOther == <<"f", "(", "a", ")">>
stBad   == <<"l", ".", "I", "n", "f", "o", "(">>

Stmts == {stOne, stMulti, stChain, stOther}
Seps  == {<<";">>, <<NL>>}

RECURSIVE ProgramsOf(_)
ProgramsOf(n) ==
    IF n = 1 THEN {st \o <<NL>> : st \in Stmts}
    ELSE {st \o sep \o p : st \in Stmts, sep \in Seps, p \in ProgramsOf(n - 1)}

Programs == UNION {ProgramsOf(n) : n \in 1..MaxStmts}

\* a file that does not end with a newline
NoFinalNewline == stMulti \o <<NL>> \o stOne

\* the trees Collect and Transform run on: a.go is any program and b.go is
\* one log call or a file that does not parse, or a.go does not parse or
\* does not end with a newline and b.go is one log call
Trees ==
    {[f \in FileSet |-> IF f = "a.go" THEN p ELSE q] :
        p \in Programs, q \in {stOne \o <<NL>>, stBad \o <<NL>>}}
      \cup {[f \in FileSet |-> IF f = "a.go" THEN p ELSE stOne \o <<NL>>] :
              p \in {stBad \o <<NL>>, NoFinalNewline}}

\* the -pattern of collect, a regular expression that is one literal
LogPattern == <<"l", ".">>

\* logPattern.MatchString(funcName)
MatchString(funcName) == Contains(funcName, LogPattern)

(***************************************************************************)
(* Collect                                                                 *)
(***************************************************************************)
\* the LogEntry parseFile builds for call node c of content s
LogEntry(filePath, s, c, id) ==
    LET funcName == getFunctionName(CallFun(s, c))
        pos      == Position(s, c.pos)
        details  == extractLogDetails(CallArgs(s, c))
    IN  [ID               |-> id,
         FilePath         |-> filePath,
         Line             |-> pos.Line,
         Column           |-> pos.Column,
         OriginalCall     |-> funcName,
         LogLevel         |-> extractLogLevel(funcName),
         MessageTemplate  |-> details.MessageTemplate,
         Arguments        |-> details.Arguments,
         NewCall          |-> <<>>,
         NewMessage       |-> <<>>,
         StructuredFields |-> <<>>,
         Notes            |-> <<>>]

\* whether the callback of parseFile records call node c
IsLogCall(s, c) ==
    LET funcName == getFunctionName(CallFun(s, c))
    IN  funcName # <<>> /\ MatchString(funcName)

\* parseFile with a counter of its own for every file
parseFileOwnCounter(filePath, s, id) ==
    LET matched == SelectSeq(ParseCalls(s), LAMBDA c : IsLogCall(s, c))
    IN  [k \in 1..Len(matched) |-> LogEntry(filePath, s, matched[k], k)]

\* parseFile: the entries of one file, numbered from id on
parseFile(filePath, s, id) ==
    LET matched == SelectSeq(ParseCalls(s), LAMBDA c : IsLogCall(s, c))
    IN  [k \in 1..Len(matched) |-> LogEntry(filePath, s, matched[k], id + k - 1)]

\* the callback of filepath.Walk returning the parse error: the walk stops at
\* the first file that fails to parse
CollectFileStopping ==
    /\ pc = "collect"
    /\ walk # <<>>
    /\ LET path == Head(walk)
       IN  IF ~ParseOK(disk[path])
           THEN /\ parseWarned' = parseWarned \cup {path}
                /\ walk' = <<>>
                /\ UNCHANGED <<entries, entryID>>
           ELSE LET fileEntries == parseFile(path, disk[path], entryID)
                IN  /\ entries' = entries \o fileEntries
                    /\ entryID' = entryID + Len(fileEntries)
                    /\ walk' = Tail(walk)
                    /\ UNCHANGED parseWarned
    /\ UNCHANGED <<probe, rerun, disk, disk0, pc, csv, edited, inputVars, fileUpdates, todo,
                   fileVars, genWarned, retErr, reads, written, processed>>

\* the callback of filepath.Walk in Collect, for the next .go file
CollectFile ==
    /\ pc = "collect"
    /\ walk # <<>>
    /\ LET path == Head(walk)
       IN  IF ~ParseOK(disk[path])
           THEN /\ parseWarned' = parseWarned \cup {path}
                /\ UNCHANGED <<entries, entryID>>
           ELSE LET fileEntries == parseFile(path, disk[path], entryID)
                IN  /\ entries' = entries \o fileEntries
                    /\ entryID' = entryID + Len(fileEntries)
                    /\ UNCHANGED parseWarned
    /\ walk' = Tail(walk)
    /\ UNCHANGED <<probe, rerun, disk, disk0, pc, csv, edited, inputVars, fileUpdates, todo,
                   fileVars, genWarned, retErr, reads, written, processed>>

\* the number of columns of the header exportToCSV writes, and of every row
HeaderCols == 14

\* one data row of exportToCSV; Cols is the number of fields of the row
CatalogRow(entry) ==
    [Cols             |-> HeaderCols,
     ID               |-> entry.ID,
     FilePath         |-> entry.FilePath,
     Line             |-> entry.Line,
     Column           |-> entry.Column,
     OriginalCall     |-> entry.OriginalCall,
     LogLevel         |-> entry.LogLevel,
     MessageTemplate  |-> entry.MessageTemplate,
     ArgumentCount    |-> Len(entry.Arguments),
     ArgumentDetails  |-> formatArgumentDetails(entry.Arguments),
     NewCall          |-> entry.NewCall,
     NewMessage       |-> entry.NewMessage,
     StructuredFields |-> entry.StructuredFields,
     Notes            |-> entry.Notes]

\* the end of Collect: exportToCSV(entries, outputFile)
ExportCSV ==
    /\ pc = "collect"
    /\ walk = <<>>
    /\ csv' = [k \in 1..Len(entries) |-> CatalogRow(entries[k])]
    /\ pc' = "edit"
    /\ UNCHANGED <<probe, rerun, disk, disk0, collectVars, edited, inputVars, fileUpdates, todo,
                   fileVars, genWarned, retErr, reads, written, processed>>

(***************************************************************************)
(* The operator's edit of the catalog, between collect and transform       *)
(***************************************************************************)
EditKinds == {"msg", "same", "call", "flds", "short"}

\* the least number of fields loadUpdates takes a row with
MinCols == 13

sNewMessage == <<"n">>
sNewCall    == <<"l", ".", "X">>
sOverride   == <<"k", "=", "v">>

EditRow(row, kind) ==
    CASE kind = "msg"  -> [row EXCEPT !.NewMessage = sNewMessage]
      [] kind = "same" -> [row EXCEPT !.NewMessage = row.MessageTemplate,
                                      !.NewCall = row.OriginalCall]
      [] kind = "call" -> [row EXCEPT !.NewCall = sNewCall]
      [] kind = "flds" -> [row EXCEPT !.NewMessage = sNewMessage,
                                      !.StructuredFields = sOverride]
      \* NewMessage filled in and the empty cells after it dropped
      [] kind = "short" -> [row EXCEPT !.NewMessage = sNewMessage,
                                       !.Cols = MinCols - 1]
      [] OTHER         -> row

OperatorEdit ==
    /\ pc = "edit"
    /\ \E plan \in [1..Len(csv) -> EditKinds \cup {"keep"}] :
          /\ Cardinality({k \in 1..Len(csv) : plan[k] # "keep"}) <= MaxEdits
          /\ csv' = [k \in 1..Len(csv) |-> EditRow(csv[k], plan[k])]
          /\ edited' = (\E k \in 1..Len(csv) : plan[k] # "keep")
    /\ pc' = "transform"
    /\ UNCHANGED <<probe, rerun, disk, disk0, collectVars, inputVars, fileUpdates, todo,
                   fileVars, genWarned, retErr, reads, written, processed>>

(***************************************************************************)
(* Transform                                                               *)
(***************************************************************************)
\* the -config argument: no file, a file that cannot be read or decoded, or
\* a file holding a TemplateConfig
tmplShort    == <<"{", "{", ".", "L", "o", "g", "g", "e", "r", "}", "}", ".", "X", "(", ")">>
tmplUndef    == <<"{", "{", ".", "L", "o", "g", "g", "e", "r", "}", "}", ".", "X", "(", "{", "{", ".", "N", "o", "p", "e", "}", "}", ")">>
tmplFieldErr == <<"{", "{", ".", "L", "o", "g", "g", "e", "r", "}", "}", ".", "Y", "(", "{", "{", "r", "a", "n", "g", "e", " ", ".", "F", "i", "e", "l", "d", "s", "}", "}", "{", "{", ".", "N", "o", "p", "e", "}", "}", "{", "{", "e", "n", "d", "}", "}", ")">>

sCustom == <<"c", "u", "s", "t", "o", "m">>

TemplateConfig(style, loggerVar, template) ==
    [Style |-> style, LoggerVar |-> loggerVar, Template |-> template]

ConfigFiles ==
    {[kind |-> "none"], [kind |-> "unreadable"]} \cup
    {[kind |-> "json", cfg |-> c] :
        c \in {TemplateConfig(<<"z", "e", "r", "o", "l", "o", "g">>, <<"l">>, <<>>),
               TemplateConfig(<<"s", "l", "o", "g", "g">>, <<"l">>, <<>>),
               TemplateConfig(<<"c", "u", "s", "t", "o", "m">>, <<"l">>, <<>>),
               TemplateConfig(<<"c", "u", "s", "t", "o", "m">>, <<"l">>, tmplShort),
               TemplateConfig(<<"c", "u", "s", "t", "o", "m">>, <<"l">>, tmplUndef),
               TemplateConfig(<<"c", "u", "s", "t", "o", "m">>, <<"l">>, tmplFieldErr)}}

\* loadTemplateConfig: [err, config]
loadTemplateConfig(configFile) ==
    CASE configFile.kind = "none" ->
           [err |-> FALSE, config |-> TemplateConfig(<<"s", "l", "o", "g">>, <<"l", "o", "g">>, <<>>)]
      [] configFile.kind = "json" ->
           [err |-> FALSE, config |-> configFile.cfg]
      [] OTHER ->
           [err |-> TRUE, config |-> TemplateConfig(<<>>, <<>>, <<>>)]

\* one LogUpdate of loadUpdates
LogUpdate(record) ==
    [ID               |-> record.ID,
     FilePath         |-> record.FilePath,
     Line             |-> record.Line,
     Column           |-> record.Column,
     OriginalCall     |-> record.OriginalCall,
     LogLevel         |-> record.LogLevel,
     MessageTemplate  |-> record.MessageTemplate,
     ArgumentDetails  |-> record.ArgumentDetails,
     NewCall          |-> record.NewCall,
     NewMessage       |-> record.NewMessage,
     StructuredFields |-> record.StructuredFields]

\* whether reader.ReadAll() returns an error: a csv.Reader with
\* FieldsPerRecord = 0 takes the number of fields of the first record, the
\* header, and reports ErrFieldCount for a record with another number
ReadAllFails(records) ==
    \E k \in 1..Len(records) : records[k].Cols # HeaderCols

\* loadUpdates over the rows that are not skipped as malformed
LoadRows(records) ==
    LET rows == SelectSeq(records, LAMBDA r : ~(r.Cols < MinCols))
    IN  [err |-> FALSE, updates |-> [k \in 1..Len(rows) |-> LogUpdate(rows[k])]]

\* loadUpdates: [err, updates]; records are the data rows of the catalog
loadUpdates(records) ==
    IF ReadAllFails(records) THEN [err |-> TRUE, updates |-> <<>>]
    ELSE IF Len(records) < 1 THEN [err |-> TRUE, updates |-> <<>>]
    ELSE LoadRows(records)

\* a test that skips only the entries with nothing new
ExcludedIfEmpty(update) == update.NewMessage = <<>> /\ update.NewCall = <<>>

\* the test of Transform that skips an entry (lines 64-67)
Excluded(update) ==
    \/ (update.NewMessage = <<>> /\ update.NewCall = <<>>)
    \/ (update.NewMessage = update.MessageTemplate
        /\ update.NewCall = update.OriginalCall)

\* fileUpdates: the entries that are not skipped, by file
GroupByFile(updates) ==
    LET kept  == SelectSeq(updates, LAMBDA u : ~Excluded(u))
        files == {kept[k].FilePath : k \in 1..Len(kept)}
    IN  [f \in files |-> SelectSeq(kept, LAMBDA u : u.FilePath = f)]

\* the arguments Transform is run with
RunInputs ==
    {[configFile |-> cf, dryRun |-> FALSE, autoMap |-> FALSE] :
        cf \in ConfigFiles} \cup
    {[configFile |-> [kind |-> "none"], dryRun |-> dr, autoMap |-> am] :
        dr \in BOOLEAN, am \in BOOLEAN} \cup
    {[configFile |-> [kind |-> "json",
                      cfg  |-> TemplateConfig(sCustom, <<"l">>, tmplFieldErr)],
      dryRun |-> TRUE, autoMap |-> FALSE]}

\* Transform up to its loop over fileUpdates (lines 48-74)
TransformStart ==
    /\ pc = "transform"
    /\ \E in \in RunInputs :
         LET lc == loadTemplateConfig(in.configFile)
             lu == loadUpdates(csv)
             fu == GroupByFile(lu.updates)
         IN  /\ dryRun' = in.dryRun
             /\ autoMap' = in.autoMap
             /\ config' = lc.config
             /\ IF lc.err
                THEN /\ retErr' = [kind |-> "config"]
                     /\ pc' = "done"
                     /\ UNCHANGED <<fileUpdates, todo>>
                ELSE IF lu.err
                THEN /\ retErr' = [kind |-> "catalog"]
                     /\ pc' = "done"
                     /\ UNCHANGED <<fileUpdates, todo>>
                ELSE /\ fileUpdates' = fu
                     /\ todo' = DOMAIN fu
                     /\ retErr' = NoError
                     /\ pc' = IF DOMAIN fu = {} THEN "done" ELSE "loop"
    /\ UNCHANGED <<probe, rerun, disk, disk0, collectVars, csv, edited, fileVars, genWarned,
                   reads, written, processed>>

\* transformFile up to ast.Inspect (lines 161-184), for the file the range
\* over the map fileUpdates yields next; os.ReadFile may fail
BeginFile ==
    /\ pc = "loop"
    /\ \E filePath \in todo, readOK \in BOOLEAN :
         /\ todo' = todo \ {filePath}
         /\ cur' = filePath
         /\ IF ~readOK
            THEN /\ retErr' = [kind |-> "read", file |-> filePath]
                 /\ pc' = "done"
                 /\ UNCHANGED <<content, tree, idx, modifications, modified, reads>>
            ELSE IF ~ParseOK(disk[filePath])
            THEN /\ retErr' = [kind |-> "parse", file |-> filePath]
                 /\ pc' = "done"
                 /\ reads' = reads \cup {filePath}
                 /\ UNCHANGED <<content, tree, idx, modifications, modified>>
            ELSE /\ content' = disk[filePath]
                 /\ tree' = ParseCalls(disk[filePath])
                 /\ idx' = 1
                 /\ modifications' = <<>>
                 /\ modified' = FALSE
                 /\ reads' = reads \cup {filePath}
                 /\ pc' = "walk"
                 /\ UNCHANGED retErr
    /\ UNCHANGED <<probe, rerun, disk, disk0, collectVars, csv, edited, inputVars, fileUpdates,
                   genWarned, written, processed>>

\* updateMap[key] exists (lines 176-180, 196)
HasUpdate(updates, key) ==
    \E k \in 1..Len(updates) : <<updates[k].Line, updates[k].Column>> = key

\* updateMap[key]: a later entry with the same key replaces an earlier one
UpdateFor(updates, key) ==
    LET ks == {k \in 1..Len(updates) :
                  <<updates[k].Line, updates[k].Column>> = key}
    IN  updates[CHOOSE k \in ks : \A j \in ks : j <= k]

\* strings.Fields
RECURSIVE Fields(_)
Fields(s) ==
    LET t == TrimLeft(s, {" ", "\n", "\t"})
        e == SkipSet(t, 1, {c \in {t[i] : i \in 1..Len(t)} : ~IsSpace(c)})
    IN  IF t = <<>> THEN <<>>
        ELSE <<SubSeq(t, 1, e - 1)>> \o Fields(From(t, e))

PreviewLen == 80

\* truncateCode(code, 80)
truncateCode(code, maxLen) ==
    LET c == Join(Fields(code), <<" ">>)
    IN  IF Len(c) <= maxLen THEN c ELSE SubSeq(c, 1, maxLen - 3) \o <<".", ".", ".">>

\* formatCallExpr(call, fset): the printed call; the printer's own layout of
\* a call is taken to be the layout of the file
formatCallExpr(s, c) == SubSeq(s, c.pos, c.end - 1)

\* the record of one modification (lines 209-213)
Modification(filePath, startPos, oldText, newCode) ==
    [File   |-> filePath,
     Line   |-> startPos.Line,
     Column |-> startPos.Column,
     Old    |-> truncateCode(oldText, PreviewLen),
     New    |-> truncateCode(newCode, PreviewLen)]

\* a callback that replaces the call in a dry run too
ReplacesAlways(isDryRun) == TRUE

\* whether the callback replaces the call in content (line 215)
Replaces(isDryRun) == ~isDryRun

\* a write-back that does not look at modified
WritesBackUnmodified(isModified, isDryRun) == ~isDryRun

\* whether the file is written back (line 231)
WritesBack(isModified, isDryRun) == isModified /\ ~isDryRun

\* a callback that ends the walk at a generation error
StopsAfterError == FALSE

\* what the callback does after a generation error (lines 203-206): TRUE to
\* go on with the walk
ContinuesAfterError == TRUE

\* the callback from the generated code on (lines 203-219); gen is the result
\* of generateStructuredLogCall
ApplyUpdate(startPos, endPos, oldText, gen) ==
    IF gen.err
    THEN /\ genWarned' = genWarned \cup {<<cur, idx>>}
         /\ idx' = IF ContinuesAfterError THEN idx + 1 ELSE Len(tree) + 1
         /\ UNCHANGED <<pc, content, modifications, modified>>
    ELSE /\ modifications' =
              Append(modifications,
                     Modification(cur, startPos, oldText, gen.out))
         /\ UNCHANGED genWarned
         /\ IF ~Replaces(dryRun)
            THEN /\ idx' = idx + 1
                 /\ UNCHANGED <<pc, content, modified>>
            ELSE IF ReplaceWouldPanic(startPos, endPos, content)
            THEN /\ pc' = "panic"
                 /\ UNCHANGED <<idx, content, modified>>
            ELSE /\ content' = ReplaceCallExpr(startPos, endPos, gen.out, content)
                 /\ modified' = TRUE
                 /\ idx' = idx + 1
                 /\ UNCHANGED pc

\* the callback of ast.Inspect in transformFile, for the next call expression
\* of the walk; positions are those of the file as it was read
VisitCall ==
    /\ pc = "walk"
    /\ idx <= Len(tree)
    /\ IF ~HasUpdate(fileUpdates[cur], PosKey(Position(disk[cur], tree[idx].pos)))
       THEN /\ idx' = idx + 1
            /\ UNCHANGED <<pc, content, modifications, modified, genWarned>>
       ELSE ApplyUpdate(
              Position(disk[cur], tree[idx].pos),
              Position(disk[cur], tree[idx].end),
              formatCallExpr(disk[cur], tree[idx]),
              generateStructuredLogCall(
                UpdateFor(fileUpdates[cur],
                          PosKey(Position(disk[cur], tree[idx].pos))),
                config, autoMap))
    /\ UNCHANGED <<probe, rerun, disk, disk0, collectVars, csv, edited, inputVars, fileUpdates,
                   todo, cur, tree, retErr, reads, written, processed>>

\* transformFile after ast.Inspect (lines 224-240) and the return into the
\* loop of Transform (lines 77-83); os.WriteFile may fail
FinishFile ==
    /\ pc = "walk"
    /\ idx > Len(tree)
    /\ \E writeOK \in BOOLEAN :
         IF WritesBack(modified, dryRun) /\ ~writeOK
         THEN /\ retErr' = [kind |-> "write", file |-> cur]
              /\ pc' = "done"
              /\ UNCHANGED <<disk, written, processed>>
         ELSE /\ IF WritesBack(modified, dryRun)
                 THEN /\ disk' = [disk EXCEPT ![cur] = content]
                      /\ written' = Append(written, cur)
                 ELSE UNCHANGED <<disk, written>>
              /\ processed' = processed \cup {cur}
              /\ pc' = IF todo = {} THEN "done" ELSE "loop"
              /\ UNCHANGED retErr
    /\ UNCHANGED <<probe, rerun, disk0, collectVars, csv, edited, inputVars,
                   fileUpdates, todo,
                   fileVars, genWarned, reads>>

(***************************************************************************)
(* The specification                                                       *)
(***************************************************************************)
Init ==
    /\ disk \in Trees
    /\ disk0 = disk
    /\ pc = "collect"
    /\ walk = FileNames
    /\ entries = <<>>
    /\ entryID = 1
    /\ parseWarned = {}
    /\ csv = <<>>
    /\ edited = FALSE
    /\ config = TemplateConfig(<<>>, <<>>, <<>>)
    /\ dryRun = FALSE
    /\ autoMap = FALSE
    /\ fileUpdates = <<>>
    /\ todo = {}
    /\ cur = NoFile
    /\ content = <<>>
    /\ tree = <<>>
    /\ idx = 1
    /\ modifications = <<>>
    /\ modified = FALSE
    /\ genWarned = {}
    /\ retErr = NoError
    /\ reads = {}
    /\ written = <<>>
    /\ processed = {}
    /\ probe = NoProbe
    /\ rerun = NoRerun

Next ==
    \/ CollectFile
    \/ ExportCSV
    \/ OperatorEdit
    \/ TransformStart
    \/ BeginFile
    \/ VisitCall
    \/ FinishFile

Spec == Init /\ [][Next]_vars

(***************************************************************************)
(* Transform run a second time, by the operator, with the same catalog and *)
(* the same configuration, on the files the first run left.                *)
(***************************************************************************)
\* Transform up to its loop over fileUpdates (lines 48-74), once more
TransformAgain ==
    /\ pc = "done"
    /\ retErr = NoError
    /\ ~dryRun
    /\ rerun = NoRerun
    /\ LET lu == loadUpdates(csv)
           fu == GroupByFile(lu.updates)
       IN  /\ fileUpdates' = fu
           /\ todo' = DOMAIN fu
           /\ pc' = IF DOMAIN fu = {} THEN "done" ELSE "loop"
    /\ rerun' = [n |-> 2, disk1 |-> disk]
    /\ reads' = {}
    /\ written' = <<>>
    /\ processed' = {}
    /\ genWarned' = {}
    /\ UNCHANGED <<probe, disk, disk0, collectVars, csv, edited, inputVars,
                   fileVars, retErr>>

NextAgain ==
    \/ Next
    \/ TransformAgain

\* the trees whose a.go is one statement
OneStatementTrees == {t \in Trees : t["a.go"] \in ProgramsOf(1) \cup {stBad \o <<NL>>}}

InitAgain == Init /\ disk \in OneStatementTrees

SpecAgain == InitAgain /\ [][NextAgain]_vars

(***************************************************************************)
(* One call expression on its own: parseFile's analysis of it, its row in  *)
(* the catalog, the operator's edit of the row, and                        *)
(* generateStructuredLogCall on the edited row.                            *)
(***************************************************************************)
\* the call expressions analysed
ProbeCalls ==
    {<<"l", "o", "g", ".", "P", "r", "i", "n", "t", "f", "(", "\"", "e", "r", "r", "o", "r", ":", " ", "%", "v", "\"", ",", " ", "e", "r", "r", ")">>,
     <<"l", ".", "I", "n", "f", "o", "(", "\"", "m", "\"", ")">>,
     <<"l", ".", "I", "n", "f", "o", "(", "\"", "%", "s", " ", "%", "d", "\"", ",", " ", "a", ")">>,
     <<"l", ".", "I", "n", "f", "o", "(", "\"", "%", "s", "\"", ",", " ", "a", ",", " ", "b", ")">>,
     <<"l", ".", "W", "a", "r", "n", "i", "n", "g", "(", "\"", "%", "d", "%", "%", "\"", ",", " ", "n", ",", " ", "u", ".", "N", "a", "m", "e", ")">>,
     <<"l", ".", "I", "n", "f", "o", "(", "\"", "m", "\"", ",", " ", "1", ",", " ", "i", "s", "O", "k", ",", " ", "e", "r", "r", ",", " ", "\"", "s", "\"", ")">>,
     <<"l", ".", "E", "r", "r", "o", "r", "(", "\"", "m", "\"", ",", " ", "f", "(", "x", ")", ")">>,
     <<"l", ".", "I", "n", "f", "o", "(", "\"", "m", "\"", ",", " ", "a", "r", "r", "[", "i", "]", ")">>,
     <<"l", ".", "I", "n", "f", "o", "(", "m", "s", "g", ",", " ", "a", ")">>,
     <<"e", "r", "r", "o", "r", "L", "o", "g", ".", "I", "n", "f", "o", "(", "\"", "m", "\"", ")">>,
     <<"l", ".", "D", "o", "(", "\"", "m", "\"", ")">>,
     <<"f", "m", "t", ".", "P", "r", "i", "n", "t", "l", "n", "(", "\"", "m", "\"", ")">>,
     <<"l", ".", "I", "n", "f", "o", "(", "\"", "m", "\"", ",", " ", "i", "s", "E", "r", "r", "o", "r", ",", " ", "m", "y", "E", "r", "r", "o", "r", ")">>}

sFailed == <<"F", "a", "i", "l", "e", "d", " ", "t", "o", " ", "p", "r", "o", "c", "e", "s", "s", " ", "r", "e", "q", "u", "e", "s", "t">>
sLogger == <<"l", "o", "g", "g", "e", "r">>
sJSONOverride == <<"[", "{", "\"", "k", "e", "y", "\"", ":", "\"", "k", "\"", ",", "\"", "e", "x", "p", "r", "e", "s", "s", "i", "o", "n", "\"", ":", "\"", "v", "\"", ",", "\"", "t", "y", "p", "e", "\"", ":", "\"", "i", "n", "t", "\"", "}", "]">>
sCallOverride == <<"k", "=", "f", "(", "a", ",", " ", "b", ")">>
sEqOverride == <<"o", "k", "=", "a", "=", "=", "b", ";", "s", "=", "m", "[", "i", ":", "j", "]">>
sBadJSON == <<"[", "{", "\"", "k", "e", "y", "\"", ":", "\"", "k", "\"">>

\* what the operator may put in a row: NewMessage, NewCall and
\* StructuredFields
ProbeMessages  == {<<>>, sFailed}
ProbeNewCalls  == {<<>>, sNewCall}
ProbeOverrides ==
    {<<>>, sOverride, sJSONOverride, sBadJSON, sCallOverride, sEqOverride}

\* the configurations generation is run with
ProbeConfigs ==
    {TemplateConfig(style, sLogger, <<>>) :
        style \in {<<"s", "l", "o", "g">>, <<"z", "a", "p">>, <<"z", "e", "r", "o", "l", "o", "g">>, <<"l", "o", "g", "r", "u", "s">>}}

\* the callback of parseFile on the call expression (lines 96-133)
AnalyzeCall ==
    /\ probe.stage = "source"
    /\ probe' = [stage |-> "entry",
                 src   |-> probe.src,
                 entry |-> LogEntry("p.go", probe.src, ParseCalls(probe.src)[1], 1)]
    /\ UNCHANGED runVars

\* the row exportToCSV writes for the entry
ExportRow ==
    /\ probe.stage = "entry"
    /\ probe' = [stage |-> "row",
                 src   |-> probe.src,
                 entry |-> probe.entry,
                 row   |-> CatalogRow(probe.entry)]
    /\ UNCHANGED runVars

\* the operator's edit of the row, and loadUpdates on the edited row
FillRow ==
    /\ probe.stage = "row"
    /\ \E msg \in ProbeMessages, call \in ProbeNewCalls,
          override \in ProbeOverrides :
         probe' = [stage  |-> "update",
                   src    |-> probe.src,
                   entry  |-> probe.entry,
                   update |-> LogUpdate([probe.row EXCEPT
                                           !.NewMessage = msg,
                                           !.NewCall = call,
                                           !.StructuredFields = override])]
    /\ UNCHANGED runVars

\* generateStructuredLogCall on the update, with the fields it resolved
GenerateCall ==
    /\ probe.stage = "update"
    /\ \E cfg \in ProbeConfigs, am \in BOOLEAN :
         probe' = [stage   |-> "call",
                   src     |-> probe.src,
                   entry   |-> probe.entry,
                   update  |-> probe.update,
                   config  |-> cfg,
                   autoMap |-> am,
                   fields  |-> ResolveFields(probe.update, am),
                   gen     |-> generateStructuredLogCall(probe.update, cfg, am)]
    /\ UNCHANGED runVars

InitArgs ==
    /\ probe \in {[stage |-> "source", src |-> c] : c \in ProbeCalls}
    /\ disk = [f \in FileSet |-> <<>>]
    /\ disk0 = disk
    /\ pc = "idle"
    /\ walk = <<>>
    /\ entries = <<>>
    /\ entryID = 1
    /\ parseWarned = {}
    /\ csv = <<>>
    /\ edited = FALSE
    /\ config = TemplateConfig(<<>>, <<>>, <<>>)
    /\ dryRun = FALSE
    /\ autoMap = FALSE
    /\ fileUpdates = <<>>
    /\ todo = {}
    /\ cur = NoFile
    /\ content = <<>>
    /\ tree = <<>>
    /\ idx = 1
    /\ modifications = <<>>
    /\ modified = FALSE
    /\ genWarned = {}
    /\ retErr = NoError
    /\ reads = {}
    /\ written = <<>>
    /\ processed = {}
    /\ rerun = NoRerun

NextArgs ==
    \/ AnalyzeCall
    \/ ExportRow
    \/ FillRow
    \/ GenerateCall

SpecArgs == InitArgs /\ [][NextArgs]_vars

(***************************************************************************)
(* What a run of Transform is meant to do to file f, computed from the     *)
(* file as it was before the run and from the entries kept for it.         *)
(***************************************************************************)
\* the call expressions of f in the order of the walk, the generated code
\* [err, out] of those an entry kept for f matches, and of these the ones
\* whose generation succeeds and the ones whose generation fails
Plan(f) ==
    LET calls  == ParseCalls(disk0[f])
        key(k) == PosKey(Position(disk0[f], calls[k].pos))
        hits   == {k \in 1..Len(calls) : HasUpdate(fileUpdates[f], key(k))}
        gen    == [k \in 1..Len(calls) |->
                     IF k \in hits
                     THEN generateStructuredLogCall(
                            UpdateFor(fileUpdates[f], key(k)), config, autoMap)
                     ELSE [err |-> TRUE, out |-> <<>>]]
    IN  [calls   |-> calls,
         gen     |-> gen,
         applied |-> {k \in hits : ~gen[k].err},
         skipped |-> {k \in hits : gen[k].err}]

\* the spans of the applied call expressions do not overlap
DisjointSpans(p) ==
    \A j, k \in p.applied :
        \/ j = k
        \/ p.calls[j].end <= p.calls[k].pos
        \/ p.calls[k].end <= p.calls[j].pos

\* s with the span [pos, end) of every call expression in ks replaced by its
\* generated code, the rest left as it is
RECURSIVE Splice(_, _, _)
Splice(p, s, ks) ==
    IF ks = {} THEN s
    ELSE LET k == CHOOSE k \in ks : \A j \in ks : p.calls[j].pos <= p.calls[k].pos
         IN  Splice(p,
                    SubSeq(s, 1, p.calls[k].pos - 1) \o p.gen[k].out
                      \o From(s, p.calls[k].end),
                    ks \ {k})

Expected(f, p) == Splice(p, disk0[f], p.applied)

\* transformFile(f) has ended in this run, by returning nil or by a run-time
\* panic
Crashed(f)  == pc = "panic" /\ cur = f
Returned(f) == f \in processed

\* the file is as the claims describe it after transformFile
AsSpecified(f, p) == ~Crashed(f) /\ disk[f] = Expected(f, p)

\* C1: a non-dry-run transformFile leaves the file equal to the original with
\* exactly the span of each matched call replaced by its generated text and
\* every other byte unchanged and in order (stated for matched calls whose
\* spans do not overlap).
C1_FrameEffect ==
    \A f \in DOMAIN fileUpdates :
        (~dryRun /\ (Returned(f) \/ Crashed(f)))
            => LET p == Plan(f)
               IN  DisjointSpans(p) => AsSpecified(f, p)

\* the lines the k-th call expression of f starts and ends on
StartLine(f, p, k) == Position(disk0[f], p.calls[k].pos).Line
EndLine(f, p, k)   == Position(disk0[f], p.calls[k].end).Line

\* exactly two call expressions of f are replaced, each on one line, and both
\* start on the same line
TwoOnOneLine(f, p) ==
    /\ Cardinality(p.applied) = 2
    /\ \A j, k \in p.applied :
          /\ StartLine(f, p, j) = EndLine(f, p, j)
          /\ StartLine(f, p, j) = StartLine(f, p, k)

\* C2: two matched calls that start on the same line are both replaced at
\* their own original spans, whatever the lengths of the replacements, and
\* the text between and around them is unchanged.
C2_SameLine ==
    \A f \in DOMAIN fileUpdates :
        (~dryRun /\ (Returned(f) \/ Crashed(f)))
            => LET p == Plan(f)
               IN  (DisjointSpans(p) /\ TwoOnOneLine(f, p)) => AsSpecified(f, p)

\* a replaced call expression of f spans several lines and another replaced
\* call expression starts on a line after it
MultiLineThenLater(f, p) ==
    \E j, k \in p.applied :
        /\ StartLine(f, p, j) < EndLine(f, p, j)
        /\ EndLine(f, p, j) < StartLine(f, p, k)

\* C3: after a matched call that spans several lines is replaced, every
\* matched call that starts on a later line is still replaced at its own
\* original line and column span.
C3_LaterLines ==
    \A f \in DOMAIN fileUpdates :
        (~dryRun /\ (Returned(f) \/ Crashed(f)))
            => LET p == Plan(f)
               IN  (DisjointSpans(p) /\ MultiLineThenLater(f, p))
                       => AsSpecified(f, p)

\* the modifications a walk of f is meant to report, in order
ExpectedMods(f, p) ==
    LET seq == SelectSeq([k \in 1..Len(p.calls) |-> k], LAMBDA k : k \in p.applied)
    IN  [i \in 1..Len(seq) |->
            Modification(f, Position(disk0[f], p.calls[seq[i]].pos),
                         formatCallExpr(disk0[f], p.calls[seq[i]]),
                         p.gen[seq[i]].out)]

\* the walk of the current file is over and transformFile is about to print
\* and write
WalkOver == pc = "walk" /\ idx > Len(tree)

\* C4: in dry-run mode no file is written and the content in memory is never
\* replaced, whether generation succeeds or fails, so every file on disk is
\* as it was; each matched entry whose generation succeeds is still reported
\* with its old and its new text.
C4_DryRun ==
    dryRun =>
        /\ disk = disk0
        /\ written = <<>>
        /\ pc # "panic"
        /\ (pc = "walk" => content = disk0[cur] /\ ~modified)
        /\ (WalkOver => modifications = ExpectedMods(cur, Plan(cur)))

\* a dry run has reported a change and has met a generation error
C4_Witness ==
    dryRun /\ pc = "done" /\ modifications # <<>> /\ genWarned # {}

\* the test the claim gives for leaving a catalog row out
C5_LeftOut(row) ==
    \/ (row.NewMessage = <<>> /\ row.NewCall = <<>>)
    \/ (row.NewMessage = row.MessageTemplate /\ row.NewCall = row.OriginalCall)

\* the catalog row is among the entries Transform rewrites
InFileUpdates(row) ==
    /\ row.FilePath \in DOMAIN fileUpdates
    /\ \E j \in 1..Len(fileUpdates[row.FilePath]) :
          fileUpdates[row.FilePath][j].ID = row.ID

\* Transform has loaded the configuration and the catalog
Grouped ==
    /\ pc \in {"loop", "walk", "panic", "done"}
    /\ retErr.kind \notin {"config", "catalog"}

\* C5: an entry is left out of rewriting exactly when NewMessage and NewCall
\* are both empty or both equal to the original message and call; so a
\* Transform of the catalog Collect produced, not edited, opens no source
\* file and changes no file content.
C5_NoOp ==
    /\ Grouped => \A k \in 1..Len(csv) : InFileUpdates(csv[k]) <=> ~C5_LeftOut(csv[k])
    /\ ~edited => (reads = {} /\ written = <<>> /\ disk = disk0)

\* Transform has run to its end on a catalog of several rows, none edited
C5_Witness ==
    pc = "done" /\ ~edited /\ Len(csv) > 1 /\ retErr = NoError

\* C6: with a style tag that is none of slog, zap, zerolog, logrus, custom,
\* Transform returns an error, and no source file has been read or written.
C6_UnknownStyle ==
    (pc = "done" /\ config.Style \notin KnownStyles)
        => (retErr # NoError /\ reads = {} /\ written = <<>>)

\* C7: with style custom and an empty template, Transform ends with an error
\* and no file is modified; no call is replaced by the rendering of the empty
\* template.
C7_EmptyTemplate ==
    (config.Style = sCustom /\ config.Template = <<>>)
        => /\ modifications = <<>>
           /\ disk = disk0
           /\ (pc = "done" => retErr # NoError)

\* C8: with a custom template that names a variable outside Logger, Level,
\* Message, Fields, generation fails for every entry: no call is replaced, no
\* placeholder text reaches a source file.
C8_UndefinedVariable ==
    (config.Style = sCustom /\ config.Template = tmplUndef)
        => /\ modifications = <<>>
           /\ \A f \in FileSet : ~Contains(disk[f], sNoValue)

\* C9: when one file cannot be read, parsed or written, every other file
\* with entries to apply is still transformed in the same run, whatever the
\* order of the files.
C9_OtherFiles ==
    (pc = "done" /\ retErr.kind \in {"read", "parse", "write"})
        => \A f \in DOMAIN fileUpdates \ {retErr.file} : f \in processed

Generated == probe.stage = "call"

\* C11: fields are resolved by strict priority, without merging: an override
\* that parses as a JSON field list is used as it is; an override that does
\* not is read with the key=expr grammar; only with an empty override,
\* auto-mapping on and ArgumentDetails not empty do the fields come from
\* ArgumentDetails; otherwise there are no fields.  A non-empty override
\* never yields a field of ArgumentDetails, and an empty override without
\* auto-mapping yields no field.
C11_FieldPriority ==
    Generated =>
        LET sf == probe.update.StructuredFields
            ad == probe.update.ArgumentDetails
            j  == JSONUnmarshalFields(sf)
        IN  /\ (sf # <<>> /\ ~j.err) => probe.fields = j.fields
            /\ (sf # <<>> /\ j.err) => probe.fields = parseSimpleFields(sf)
            /\ (sf = <<>> /\ probe.autoMap /\ ad # <<>>)
                  => probe.fields = autoGenerateFieldsFromArguments(ad)
            /\ (sf = <<>> /\ ~(probe.autoMap /\ ad # <<>>)) => probe.fields = <<>>
            /\ sf = sJSONOverride
                  => probe.fields = <<[Key |-> <<"k">>, Expression |-> <<"v">>,
                                       Type |-> <<"i", "n", "t">>]>>
            /\ sf = sOverride
                  => probe.fields = <<[Key |-> <<"k">>, Expression |-> <<"v">>,
                                       Type |-> <<"u", "n", "k", "n", "o", "w", "n">>]>>

\* a JSON override resolved with auto-mapping on for a call that has arguments
C11_Witness ==
    /\ Generated
    /\ probe.update.StructuredFields = sJSONOverride
    /\ probe.autoMap
    /\ probe.update.ArgumentDetails # <<>>
    /\ Len(probe.fields) = 1

\* C12: the field candidates of a call survive the catalog: with an empty
\* override, the fields derived from the serialized ArgumentDetails are as
\* many as the candidates, in the same order, each with the key and the
\* expression of its candidate.
C12_RoundTrip ==
    (Generated /\ probe.update.StructuredFields = <<>> /\ probe.autoMap)
        => /\ Len(probe.fields) = Len(probe.entry.Arguments)
           /\ \A i \in 1..Len(probe.fields) :
                 /\ probe.fields[i].Key = probe.entry.Arguments[i].SuggestedKey
                 /\ probe.fields[i].Expression = probe.entry.Arguments[i].Expression

\* the arguments of the call expression under analysis
ProbeArgs == CallArgs(probe.src, ParseCalls(probe.src)[1])

Analyzed == probe.stage # "source"

LiteralFirst ==
    /\ Len(ProbeArgs) > 0
    /\ ProbeArgs[1].kind = "BasicLit"
    /\ ProbeArgs[1].tok = "STRING"

\* C13: a call whose first argument is a string literal with k format verbs
\* (the tokens of the verb pattern, left to right) and which has m further
\* arguments gets exactly m field candidates with Index 0..m-1 in argument
\* order; candidate i carries the i-th verb when i < k and no verb otherwise.
C13_VerbPairing ==
    (Analyzed /\ LiteralFirst)
        => LET verbs == FindVerbs(Trim(ProbeArgs[1].Value, QuoteCutset), 1)
               k     == Len(verbs)
               m     == Len(ProbeArgs) - 1
               cands == probe.entry.Arguments
           IN  /\ Len(cands) = m
               /\ \A i \in 0..(m - 1) :
                     /\ cands[i + 1].Index = i
                     /\ cands[i + 1].Expression = formatExpr(ProbeArgs[i + 2])
                     /\ cands[i + 1].FormatVerb =
                           (IF i < k THEN verbs[i + 1] ELSE <<>>)
               /\ Cardinality({i \in 1..m : cands[i].FormatVerb # <<>>})
                     <= (IF k < m THEN k ELSE m)
               /\ (probe.src = <<"l", ".", "I", "n", "f", "o", "(", "\"", "%", "s", " ", "%", "d", "\"", ",", " ", "a", ")">>)
                     => cands = <<[Index |-> 0, Expression |-> <<"a">>,
                                   VarName |-> <<"a">>, Type |-> <<"u", "n", "k", "n", "o", "w", "n">>,
                                   FormatVerb |-> <<"%", "s">>, SuggestedKey |-> <<"a">>]>>
               /\ (probe.src = <<"l", ".", "W", "a", "r", "n", "i", "n", "g", "(", "\"", "%", "d", "%", "%", "\"", ",", " ", "n", ",", " ", "u", ".", "N", "a", "m", "e", ")">>)
                     => /\ cands[1].FormatVerb = <<"%", "d">>
                        /\ cands[2].FormatVerb = <<>>

\* one verb and two further arguments: the first candidate carries the verb,
\* the second carries none
C13_Witness ==
    /\ probe.stage = "entry"
    /\ probe.src = <<"l", ".", "I", "n", "f", "o", "(", "\"", "%", "s", "\"", ",", " ", "a", ",", " ", "b", ")">>
    /\ Len(probe.entry.Arguments) = 2
    /\ probe.entry.Arguments[1].FormatVerb = <<"%", "s">>
    /\ probe.entry.Arguments[2].FormatVerb = <<>>

sPrintfErr == <<"l", "o", "g", ".", "P", "r", "i", "n", "t", "f", "(", "\"", "e", "r", "r", "o", "r", ":", " ", "%", "v", "\"", ",", " ", "e", "r", "r", ")">>

\* the collected call is generated in the slog style from a row in which the
\* operator filled in NewMessage only, with auto-mapping on
PrintfErrRun ==
    /\ Generated
    /\ probe.src = sPrintfErr
    /\ probe.update.NewMessage = sFailed
    /\ probe.update.StructuredFields = <<>>
    /\ probe.config.Style = <<"s", "l", "o", "g">>
    /\ probe.config.LoggerVar = sLogger
    /\ probe.autoMap

\* C14: log.Printf("error: %v", err) with NewMessage "Failed to process
\* request", no override, the slog style and logger variable logger is
\* replaced by logger.Error("Failed to process request", Any("error", err)):
\* the level is Error and the single field is the generic wrapper over key
\* error and expression err.  The letter case of the method and the package
\* qualifier of the wrapper are left open.
C14_EndToEnd ==
    PrintfErrRun
        => /\ ~probe.gen.err
           /\ probe.fields = <<[Key |-> <<"e", "r", "r", "o", "r">>, Expression |-> <<"e", "r", "r">>,
                                Type |-> <<"e", "r", "r", "o", "r">>]>>
           /\ ToLower(probe.gen.out) \in
                 {ToLower(<<"l", "o", "g", "g", "e", "r", ".", "E", "r", "r", "o", "r", "(", "\"", "F", "a", "i", "l", "e", "d", " ", "t", "o", " ", "p", "r", "o", "c", "e", "s", "s", " ", "r", "e", "q", "u", "e", "s", "t", "\"", ",", " ", "A", "n", "y", "(", "\"", "e", "r", "r", "o", "r", "\"", ",", " ", "e", "r", "r", ")", ")">>),
                  ToLower(<<"l", "o", "g", "g", "e", "r", ".", "E", "r", "r", "o", "r", "(", "\"", "F", "a", "i", "l", "e", "d", " ", "t", "o", " ", "p", "r", "o", "c", "e", "s", "s", " ", "r", "e", "q", "u", "e", "s", "t", "\"", ",", " ", "s", "l", "o", "g", ".", "A", "n", "y", "(", "\"", "e", "r", "r", "o", "r", "\"", ",", " ", "e", "r", "r", ")", ")">>)}

\* a field wrapped by the constructor cons, as it stands in a generated call
Wrapped(cons, field) ==
    cons \o <<"(", "\"">> \o field.Key \o <<"\"", ",", " ">> \o field.Expression \o <<")">>

SlogGenerated ==
    /\ Generated
    /\ probe.config.Style = <<"s", "l", "o", "g">>
    /\ ~probe.gen.err

\* C15: in the slog style each field is wrapped by the constructor of its
\* Type tag: String for string, Int for int, Bool for bool, the error
\* constructor (and not the generic one) for error, and Any only for the
\* fields of any other type.
C15_TypedWrappers ==
    SlogGenerated
        => \A i \in 1..Len(probe.fields) :
              LET field == probe.fields[i]
                  out   == probe.gen.out
              IN  CASE field.Type = <<"s", "t", "r", "i", "n", "g">> -> Contains(out, Wrapped(<<"S", "t", "r", "i", "n", "g">>, field))
                    [] field.Type = <<"i", "n", "t">>    -> Contains(out, Wrapped(<<"I", "n", "t">>, field))
                    [] field.Type = <<"b", "o", "o", "l">>   -> Contains(out, Wrapped(<<"B", "o", "o", "l">>, field))
                    [] field.Type = <<"e", "r", "r", "o", "r">>  -> ~Contains(out, Wrapped(<<"A", "n", "y">>, field))
                    [] OTHER                   -> Contains(out, Wrapped(<<"A", "n", "y">>, field))

\* the position key of a record
SiteKey(entry) == <<entry.FilePath, entry.Line, entry.Column>>

\* C16: no two records of one Collect run share (FilePath, Line, Column);
\* each call of a chained expression has its own position key.
C16_UniquePosition ==
    \A i, j \in 1..Len(entries) :
        SiteKey(entries[i]) = SiteKey(entries[j]) => i = j

\* C17: the identifiers of one Collect run come from one counter shared by
\* all files: the k-th record emitted has number k, starting at 1, so the
\* identifiers are pairwise distinct and none is reused or skipped.  (The
\* model keeps the number; the code prints it as LOG-%04d.)
C17_SharedCounter ==
    /\ \A k \in 1..Len(entries) : entries[k].ID = k
    /\ \A i, j \in 1..Len(entries) : entries[i].ID = entries[j].ID => i = j
    /\ entryID = Len(entries) + 1

\* the walk is over and both files contributed records
C17_Witness ==
    /\ walk = <<>>
    /\ Len(entries) >= 3
    /\ entries[1].FilePath = "a.go"
    /\ entries[Len(entries)].FilePath = "b.go"
    /\ entries[Len(entries)].ID = Len(entries)

\* the files the walk of Collect has visited
Scanned == {f \in FileSet : \A k \in 1..Len(walk) : walk[k] # f}

\* the file whose only statement is cut off inside its argument list
Unparsable(f) == disk0[f] = stBad \o <<NL>>

RecordsOf(f) == SelectSeq(entries, LAMBDA e : e.FilePath = f)

\* the call expressions of content s whose name matches the pattern
LogCalls(s) == SelectSeq(ParseCalls(s), LAMBDA c : IsLogCall(s, c))

\* C18: a file that fails to parse contributes no records, consumes no
\* identifier and produces a warning; the walk goes on over the remaining
\* files, whose records are all collected, and the catalog is written with
\* every record.
C18_ParseFailure ==
    /\ \A f \in Scanned :
          IF Unparsable(f)
          THEN f \in parseWarned /\ RecordsOf(f) = <<>>
          ELSE /\ f \notin parseWarned
               /\ Len(RecordsOf(f)) = Len(LogCalls(disk0[f]))
    /\ parseWarned \subseteq Scanned
    /\ entryID = Len(entries) + 1
    /\ pc # "collect"
          => /\ Scanned = FileSet
             /\ Len(csv) = Len(entries)
             /\ \A k \in 1..Len(csv) : csv[k].ID = k

\* the first file visited does not parse; the second is scanned all the same,
\* its record takes the first identifier, and the catalog is written
C18_Witness ==
    /\ pc = "edit"
    /\ Unparsable("a.go")
    /\ parseWarned = {"a.go"}
    /\ Len(entries) = 1
    /\ entries[1].FilePath = "b.go"
    /\ entries[1].ID = 1
    /\ Len(csv) = 1

\* Transform is past loadTemplateConfig and loadUpdates
Loaded ==
    /\ pc \notin {"collect", "edit", "transform"}
    /\ retErr # [kind |-> "config"]

Malformed(row) == row.Cols < MinCols

\* C19: loadUpdates skips a row with fewer than 13 columns and loads the
\* other rows; the load fails only when the catalog has no data row.
C19_MalformedRow ==
    Loaded
        => /\ retErr = [kind |-> "catalog"] => Len(csv) = 0
           /\ retErr # [kind |-> "catalog"]
                 => \A k \in 1..Len(csv) :
                       (~Malformed(csv[k]) /\ ~Excluded(LogUpdate(csv[k])))
                          => /\ csv[k].FilePath \in DOMAIN fileUpdates
                             /\ \E j \in 1..Len(fileUpdates[csv[k].FilePath]) :
                                   fileUpdates[csv[k].FilePath][j] = LogUpdate(csv[k])

\* the files written so far
WrittenSet == {written[k] : k \in 1..Len(written)}

\* C20: a file is written at most once in a Transform run, only when the
\* walk over its call expressions is over, as the whole of the content
\* built in memory, and only when a replacement was applied; while a file is
\* being processed the disk holds its content of before the run.
C20_WrittenOnce ==
    /\ [](pc = "walk" => disk[cur] = disk0[cur])
    /\ [][(disk' # disk \/ written' # written)
            => /\ pc = "walk"
               /\ idx > Len(tree)
               /\ cur \notin WrittenSet
               /\ written' = Append(written, cur)
               /\ disk' = [disk EXCEPT ![cur] = content]
               /\ modified
               /\ modifications # <<>>
               /\ content # disk[cur]]_vars

\* a.go was written once, after two replacements in memory
C20_Witness ==
    /\ pc \in {"loop", "done"}
    /\ cur = "a.go"
    /\ Len(modifications) = 2
    /\ Cardinality({k \in 1..Len(written) : written[k] = "a.go"}) = 1
    /\ disk["a.go"] # disk0["a.go"]

(***************************************************************************)
(* Claims about one replacement and about the passes over one file          *)
(***************************************************************************)
\* exactly one call expression of f is matched by an entry, and it is replaced
OneMatched(p) ==
    Cardinality(p.applied) = 1 /\ p.skipped = {}

\* the file after the replacement of its k-th call expression alone, as lines:
\* lines before the call untouched, the text before the start column, the
\* replacement, the text from the end column, lines after the call untouched
LinesAfterOne(f, p, k) ==
    LET lines == Split(disk0[f], NL)
        start == Position(disk0[f], p.calls[k].pos)
        end   == Position(disk0[f], p.calls[k].end)
    IN  SubSeq(lines, 1, start.Line - 1)
          \o <<SubSeq(lines[start.Line], 1, start.Column - 1) \o p.gen[k].out
                 \o From(lines[end.Line], end.Column)>>
          \o SubSeq(lines, end.Line + 1, Len(lines))

\* C21: when exactly one call expression of a file is matched (so no other
\* call expression starts at its position), the file becomes the text before
\* the call's start column on its start line, the replacement, and the text
\* from its end column on its end line; a call on lines s..e leaves the file
\* e - s lines shorter, and the lines before s and after e are unchanged.
C21_SingleReplacement ==
    \A f \in DOMAIN fileUpdates :
        (~dryRun /\ (Returned(f) \/ Crashed(f)))
            => LET p == Plan(f)
               IN  OneMatched(p)
                     => LET k == CHOOSE k \in p.applied : TRUE
                        IN  /\ ~Crashed(f)
                            /\ Split(disk[f], NL) = LinesAfterOne(f, p, k)
                            /\ Len(Split(disk[f], NL))
                                 = Len(Split(disk0[f], NL))
                                     - (EndLine(f, p, k) - StartLine(f, p, k))

\* a.go was rewritten with one replacement, of a call that spans two lines
C21_Witness ==
    /\ ~dryRun
    /\ "a.go" \in DOMAIN fileUpdates
    /\ Returned("a.go")
    /\ LET p == Plan("a.go")
       IN  /\ OneMatched(p)
           /\ \E k \in p.applied : StartLine("a.go", p, k) < EndLine("a.go", p, k)
    /\ disk["a.go"] # disk0["a.go"]

\* the ordered vocabulary of the claim, each word with the level reported
Vocabulary ==
    <<[word |-> <<"t", "r", "a", "c", "e">>,   level |-> <<"T", "r", "a", "c", "e">>],
      [word |-> <<"d", "e", "b", "u", "g">>,   level |-> <<"D", "e", "b", "u", "g">>],
      [word |-> <<"i", "n", "f", "o">>,    level |-> <<"I", "n", "f", "o">>],
      [word |-> <<"w", "a", "r", "n">>,    level |-> <<"W", "a", "r", "n">>],
      [word |-> <<"w", "a", "r", "n", "i", "n", "g">>, level |-> <<"W", "a", "r", "n">>],
      [word |-> <<"e", "r", "r", "o", "r">>,   level |-> <<"E", "r", "r", "o", "r">>],
      [word |-> <<"f", "a", "t", "a", "l">>,   level |-> <<"F", "a", "t", "a", "l">>],
      [word |-> <<"p", "a", "n", "i", "c">>,   level |-> <<"P", "a", "n", "i", "c">>]>>

\* the level the claim gives for a callee name
LevelOf(name) ==
    LET lower == ToLower(name)
        found == {i \in 1..Len(Vocabulary) : Contains(lower, Vocabulary[i].word)}
    IN  IF found # {}
        THEN Vocabulary[CHOOSE i \in found : \A j \in found : i <= j].level
        ELSE IF Contains(lower, <<"p", "r", "i", "n", "t">>) THEN <<"I", "n", "f", "o">>
        ELSE <<"U", "n", "k", "n", "o", "w", "n">>

\* C22: extractLogLevel returns the first word of trace, debug, info, warn,
\* warning, error, fatal, panic that occurs in the lower-cased callee name,
\* receiver included, capitalised, with warning reported as Warn; Info when
\* none occurs and the name contains print; Unknown otherwise.
C22_LevelVocabulary ==
    Analyzed
        => /\ probe.entry.LogLevel = LevelOf(probe.entry.OriginalCall)
           /\ probe.src = <<"l", ".", "W", "a", "r", "n", "i", "n", "g", "(", "\"", "%", "d", "%", "%", "\"", ",", " ", "n", ",", " ", "u", ".", "N", "a", "m", "e", ")">>
                 => probe.entry.LogLevel = <<"W", "a", "r", "n">>
           /\ probe.src = <<"e", "r", "r", "o", "r", "L", "o", "g", ".", "I", "n", "f", "o", "(", "\"", "m", "\"", ")">>
                 => probe.entry.LogLevel = <<"I", "n", "f", "o">>
           /\ probe.src = sPrintfErr => probe.entry.LogLevel = <<"I", "n", "f", "o">>
           /\ probe.src = <<"l", ".", "D", "o", "(", "\"", "m", "\"", ")">> => probe.entry.LogLevel = <<"U", "n", "k", "n", "o", "w", "n">>
           /\ probe.src = <<"l", ".", "E", "r", "r", "o", "r", "(", "\"", "m", "\"", ",", " ", "f", "(", "x", ")", ")">>
                 => probe.entry.LogLevel = <<"E", "r", "r", "o", "r">>

\* a name that holds two words of the vocabulary, the later one of them first
\* in the name
C22_Witness ==
    /\ probe.stage = "entry"
    /\ probe.entry.OriginalCall = <<"e", "r", "r", "o", "r", "L", "o", "g", ".", "I", "n", "f", "o">>
    /\ probe.entry.LogLevel = <<"I", "n", "f", "o">>

\* C23: every identifier argument whose name is err or ends with Error is
\* tagged error, names such as isError and hasError included; every
\* expression that no rule covers is tagged unknown.
C23_ErrorIdentifiers ==
    Analyzed
        => \A i \in 1..Len(probe.entry.Arguments) :
              LET arg == ProbeArgs[i + 1]
                  typ == probe.entry.Arguments[i].Type
              IN  /\ (arg.kind = "Ident"
                        /\ (arg.Name = <<"e", "r", "r">> \/ HasSuffix(arg.Name, <<"E", "r", "r", "o", "r">>)))
                       => typ = <<"e", "r", "r", "o", "r">>
                  /\ arg.kind \notin {"BasicLit", "Ident", "CallExpr"}
                       => typ = <<"u", "n", "k", "n", "o", "w", "n">>

\* overrides in the simple grammar, with the segments they are written as
SimpleOverrides ==
    {[text |-> sOverride,
      segs |-> <<[key |-> <<"k">>, expr |-> <<"v">>]>>],
     [text |-> sCallOverride,
      segs |-> <<[key |-> <<"k">>, expr |-> <<"f", "(", "a", ",", " ", "b", ")">>]>>],
     [text |-> sEqOverride,
      segs |-> <<[key |-> <<"o", "k">>, expr |-> <<"a", "=", "=", "b">>],
                 [key |-> <<"s">>, expr |-> <<"m", "[", "i", ":", "j", "]">>]>>]}

\* C24: an override of key=expr segments gives one field per segment, in
\* order, with the segment's key and its complete expression text, for any
\* Go expression: a call with several arguments such as f(a, b), an
\* expression that holds = or :.
C24_SimpleGrammar ==
    Generated
        => \A o \in SimpleOverrides :
              probe.update.StructuredFields = o.text
                 => probe.fields =
                      [i \in 1..Len(o.segs) |->
                         [Key        |-> o.segs[i].key,
                          Expression |-> o.segs[i].expr,
                          Type       |-> <<"u", "n", "k", "n", "o", "w", "n">>]]

\* the positions the entries kept for f name
EntryKeys(f) ==
    {PosKey(fileUpdates[f][j]) : j \in 1..Len(fileUpdates[f])}

\* the call expressions that are replaced all start at one position
OnePosition(f, p) ==
    /\ p.applied # {}
    /\ p.skipped = {}
    /\ \A j, k \in p.applied : p.calls[j].pos = p.calls[k].pos

\* C25: in one pass over a file each entry is applied to at most one call
\* expression; when several call expressions start at the position of the
\* entry, as the outer and the inner call of a chain do, its replacement is
\* spliced into the content once.
C25_AppliedOnce ==
    /\ pc = "walk" => Len(modifications) <= Cardinality(EntryKeys(cur))
    /\ \A f \in DOMAIN fileUpdates :
          (~dryRun /\ (Returned(f) \/ Crashed(f)))
              => LET p == Plan(f)
                 IN  OnePosition(f, p)
                        => /\ ~Crashed(f)
                           /\ \E k \in p.applied :
                                 Split(disk[f], NL) = LinesAfterOne(f, p, k)

\* the first run rewrote f as planned: each matched call replaced at its own
\* span, nothing else touched
RewrittenCleanly(f, p) ==
    /\ rerun.n = 2
    /\ p.applied # {}
    /\ rerun.disk1[f] = Expected(f, p)

\* C26: a second run of Transform with the same catalog and configuration
\* leaves a file the first run rewrote cleanly as the first run left it, for
\* every built-in style.
C26_Idempotent ==
    \A f \in DOMAIN fileUpdates :
        (rerun.n = 2 /\ (Returned(f) \/ Crashed(f)))
            => LET p == Plan(f)
               IN  (DisjointSpans(p) /\ RewrittenCleanly(f, p))
                      => /\ ~Crashed(f)
                         /\ disk[f] = rerun.disk1[f]

\* C27: at every replacement of a pass the start and the end column taken from
\* the tree are within the line of the current content they index, so no
\* pass crashes between its first replacement and the write of the file.
C27_NoOutOfRange == pc # "panic"

\* C28: the changes reported for a file are the replacements spliced into its
\* content: in a run that is not a dry run, whenever the walk records a
\* modification, modified is set and replaceCallExpr has changed the content
\* (it has not returned at its guard on the line numbers).
C28_ChangesCounted ==
    [][(~dryRun /\ pc' = "walk"
          /\ Len(modifications') = Len(modifications) + 1)
         => (modified' /\ content' # content)]_vars

\* transformFile returned an error for one file and Transform returned it
FileFailed == pc = "done" /\ retErr.kind \in {"read", "parse", "write"}

\* C29: the files written, their content and the error returned do not depend
\* on the order in which the range over fileUpdates yields the files, also
\* when one file fails.  One of the orders yields the failing file first, and
\* Transform then returns with no other file opened; so in every run that
\* fails on a file each other file has to be as it was, not processed.
C29_OrderIndependent ==
    FileFailed
        => \A f \in DOMAIN fileUpdates \ {retErr.file} :
              /\ f \notin processed
              /\ disk[f] = disk0[f]

\* the message of the generated call as the claim gives it
MessageOf(update) ==
    IF update.NewMessage # <<>> THEN update.NewMessage
    ELSE Trim(update.MessageTemplate, QuoteCutset)

\* the method name of the generated call, in lower case
MethodOf(update) ==
    IF ToLower(update.LogLevel) = sWarning THEN sWarn ELSE ToLower(update.LogLevel)

=============================================================================
